---------------------------- MODULE Spec2Model ----------------------------
(***************************************************************************)
(* A model of the maamar search core (search_maamar_with_openai.py).       *)
(*                                                                         *)
(* Text is a sequence of characters.  A character is written as a short    *)
(* string: Hebrew letters are transliterated ("a" alef, "b" bet, "g"       *)
(* gimel, "d" dalet, "h" heh, "v" vav, "z" zayin, "H" het, "T" tet,        *)
(* "y" yod, "K" final kaf, "k" kaf, "l" lamed, "M" final mem, "m" mem,     *)
(* "N" final nun, "n" nun, "x" samekh, "e" ayin, "F" final pe, "p" pe,     *)
(* "C" final tsadi, "c" tsadi, "q" qof, "r" resh, "s" shin, "t" tav),      *)
(* the eight quote glyphs the code knows are "G2" (Hebrew gershayim),      *)
(* "G1" (Hebrew geresh), "Q2" (ASCII double quote), "Q1" (ASCII            *)
(* apostrophe), "BT" (backtick), "P1" (prime), "P2" (double prime),        *)
(* "P3" (triple prime); "NQ" is a Hebrew diacritical mark, " " a blank,    *)
(* "," and "?" punctuation, "7" a digit, "/" a slash, "|" a pipe.          *)
(*                                                                         *)
(* A Python dict is a function whose domain is its set of keys, None is    *)
(* the string "None".  In the state a value that may be None is kept as a  *)
(* list of at most one member (Optional), so that the values of a variable *)
(* are all of one shape.                                                   *)
(***************************************************************************)
EXTENDS Integers, Sequences, FiniteSets, TLC

None == "None"

\* a value that may be None, as the list of at most one member
Optional(x) == IF x = None THEN <<>> ELSE <<x>>

\* the value of a list made by Optional
Value(o) == IF o = <<>> THEN None ELSE o[1]

\* ------------------------------------------------------------------------
\* Character classes
\* ------------------------------------------------------------------------

\* [א-ת]
HebrewLetters ==
  {"a", "b", "g", "d", "h", "v", "z", "H", "T", "y", "K", "k", "l", "M", "m", "N",
   "n", "x", "e", "F", "p", "C", "c", "q", "r", "s", "t"}

\* [״"׳'`′″‴]
QuoteGlyphs == {"G2", "Q2", "G1", "Q1", "BT", "P1", "P2", "P3"}

\* [֑-ׇ]
Niqqud == {"NQ"}

\* [,.\-:;!?()[\]{}]
Punctuation == {",", ".", "-", ":", ";", "!", "?", "(", ")", "[", "]", "{", "}"}

\* what str.split() and \s treat as white space
Whitespace == {" ", "NL"}

\* \d
Digits == {"7"}

\* ------------------------------------------------------------------------
\* Generic sequence helpers (Python list and str primitives)
\* ------------------------------------------------------------------------

Min(a, b) == IF a <= b THEN a ELSE b

Max(a, b) == IF a >= b THEN a ELSE b

\* the list whose members are all computed (a function that is written as
\* a mapping is a list once it is built)
List(s) == s \o <<>>

\* s[:n] for any integer n (a negative n counts from the end)
Take(s, n) ==
  IF n >= 0 THEN SubSeq(s, 1, Min(n, Len(s)))
  ELSE SubSeq(s, 1, Max(Len(s) + n, 0))

\* s[i:] with a 0-based i >= 0
Drop(s, i) == SubSeq(s, i + 1, Len(s))

\* [x for x in s if x not in drop]
RECURSIVE RemoveChars(_, _)
RemoveChars(s, drop) ==
  IF s = <<>> THEN <<>>
  ELSE IF Head(s) \in drop THEN RemoveChars(Tail(s), drop)
       ELSE <<Head(s)>> \o RemoveChars(Tail(s), drop)

\* re.sub(r'[...]', ' ', s)
MapToBlank(s, cls) == List([i \in 1..Len(s) |-> IF s[i] \in cls THEN " " ELSE s[i]])

\* s.startswith(p)
StartsWith(s, p) == Len(s) >= Len(p) /\ SubSeq(s, 1, Len(p)) = p

\* s.endswith(p)
EndsWith(s, p) == Len(s) >= Len(p) /\ SubSeq(s, Len(s) - Len(p) + 1, Len(s)) = p

\* whether p occurs in s at the 1-based position i
MatchAt(s, p, i) == i >= 1 /\ i + Len(p) - 1 <= Len(s) /\ SubSeq(s, i, i + Len(p) - 1) = p

\* p in s  (substring test of str)
Contains(s, p) == \E i \in 1..(Len(s) + 1) : MatchAt(s, p, i)

\* x in lst
InList(x, lst) == \E i \in 1..Len(lst) : lst[i] = x

\* s.strip()
RECURSIVE LStrip(_)
LStrip(s) == IF s # <<>> /\ Head(s) \in Whitespace THEN LStrip(Tail(s)) ELSE s

RECURSIVE RStrip(_)
RStrip(s) ==
  IF s # <<>> /\ s[Len(s)] \in Whitespace THEN RStrip(SubSeq(s, 1, Len(s) - 1)) ELSE s

Strip(s) == RStrip(LStrip(s))

\* s.split(): the maximal runs of non-blank characters
RECURSIVE SplitFrom(_, _, _)
SplitFrom(s, i, cur) ==
  IF i > Len(s) THEN (IF cur = <<>> THEN <<>> ELSE <<cur>>)
  ELSE IF s[i] \in Whitespace
       THEN (IF cur = <<>> THEN <<>> ELSE <<cur>>) \o SplitFrom(s, i + 1, <<>>)
       ELSE SplitFrom(s, i + 1, Append(cur, s[i]))

Split(s) == SplitFrom(s, 1, <<>>)

\* ' '.join(words)
RECURSIVE Join(_)
Join(words) ==
  IF words = <<>> THEN <<>>
  ELSE IF Len(words) = 1 THEN words[1]
       ELSE words[1] \o <<" ">> \o Join(Tail(words))

\* set(lst)
ToSet(lst) == {lst[i] : i \in 1..Len(lst)}

\* ------------------------------------------------------------------------
\* normalize_text
\* ------------------------------------------------------------------------

\* re.sub(r'([א-ת])X([א-ת])', r'\1\2', s): one left-to-right pass over
\* non-overlapping matches; the letter that closes a match is consumed and
\* cannot open the next one.
RECURSIVE ElideFrom(_, _, _)
ElideFrom(s, i, ch) ==
  IF i > Len(s) THEN <<>>
  ELSE IF /\ i + 2 <= Len(s)
          /\ s[i] \in HebrewLetters
          /\ s[i + 1] = ch
          /\ s[i + 2] \in HebrewLetters
       THEN <<s[i], s[i + 2]>> \o ElideFrom(s, i + 3, ch)
       ELSE <<s[i]>> \o ElideFrom(s, i + 1, ch)

ElideInternal(s, ch) == ElideFrom(s, 1, ch)

\* the letter that the level elides
ElidedAt(level) == IF level = 1 THEN "v" ELSE IF level = 2 THEN "y" ELSE "h"

\* a normalisation in which a level elides its own letter only
normalize_text_of_level(text, level) ==
  IF text = <<>> THEN <<>>
  ELSE LET t0 == RemoveChars(text, Niqqud)
           t1 == RemoveChars(t0, QuoteGlyphs)
           t2 == IF level >= 1 THEN ElideInternal(t1, ElidedAt(level)) ELSE t1
           t5 == MapToBlank(t2, Punctuation)
       IN  Strip(Join(Split(t5)))

\* a normalisation that leaves the prime and the double prime in the text
normalize_text_with_primes(text, level) ==
  IF text = <<>> THEN <<>>
  ELSE LET t0 == RemoveChars(text, Niqqud)
           t1 == RemoveChars(t0, QuoteGlyphs \ {"P1", "P2"})
           t2 == IF level >= 1 THEN ElideInternal(t1, "v") ELSE t1
           t3 == IF level >= 2 THEN ElideInternal(t2, "y") ELSE t2
           t4 == IF level >= 3 THEN ElideInternal(t3, "h") ELSE t3
           t5 == MapToBlank(t4, Punctuation)
       IN  Strip(Join(Split(t5)))

normalize_text(text, level) ==
  IF text = <<>> THEN <<>>
  ELSE LET t0 == RemoveChars(text, Niqqud)
           t1 == RemoveChars(t0, QuoteGlyphs)
           t2 == IF level >= 1 THEN ElideInternal(t1, "v") ELSE t1
           t3 == IF level >= 2 THEN ElideInternal(t2, "y") ELSE t2
           t4 == IF level >= 3 THEN ElideInternal(t3, "h") ELSE t3
           t5 == MapToBlank(t4, Punctuation)
       IN  Strip(Join(Split(t5)))


\* ------------------------------------------------------------------------
\* Input cleaning: clean_maamar_name, extract_year_from_text, year
\* normalisation, extract_maamar_name_only
\* ------------------------------------------------------------------------

\* "מאמר"
MaamarWord == <<"m", "a", "m", "r">>

\* index of the last character of the run of non-blank characters that
\* starts at i (i - 1 when s[i] is blank or i is past the end)
RECURSIVE RunEnd(_, _)
RunEnd(s, i) ==
  IF i > Len(s) \/ s[i] \in Whitespace THEN i - 1 ELSE RunEnd(s, i + 1)

\* first index >= i that holds no blank
RECURSIVE SkipBlanks(_, _)
SkipBlanks(s, i) ==
  IF i <= Len(s) /\ s[i] \in Whitespace THEN SkipBlanks(s, i + 1) ELSE i

\* re.sub(r'\S*מאמר\s*', '', s): the greedy \S* backs up to the last
\* "מאמר" of the run of non-blank characters it started in.
RECURSIVE RemoveMaamarFrom(_, _)
RemoveMaamarFrom(s, i) ==
  IF i > Len(s) THEN <<>>
  ELSE LET e == RunEnd(s, i)
           hits == {j \in i..e : MatchAt(s, MaamarWord, j) /\ j + 3 <= e}
       IN  IF hits # {}
           THEN LET j == CHOOSE x \in hits : \A y \in hits : y <= x
                IN  RemoveMaamarFrom(s, SkipBlanks(s, j + 4))
           ELSE <<s[i]>> \o RemoveMaamarFrom(s, i + 1)

clean_maamar_name(text) ==
  IF text = <<>> \/ text = None THEN text
  ELSE LET t1 == RemoveMaamarFrom(Strip(text), 1)
           t2 == RemoveChars(t1, Digits)
       IN  Join(Split(t2))

\* re.search(r'תש[א-ת]{1,2}(?:[״"׳\'][א-ת]|[א-ת])?', s): length of the match
\* that starts at i, 0 when there is none.  Every quantifier is greedy and
\* what follows it may match the empty string, so nothing backtracks.
IsL(s, i) == i <= Len(s) /\ s[i] \in HebrewLetters

YearMatchLen(s, i) ==
  IF ~(i + 2 <= Len(s) /\ s[i] = "t" /\ s[i + 1] = "s" /\ IsL(s, i + 2)) THEN 0
  ELSE LET p == IF IsL(s, i + 3) THEN i + 4 ELSE i + 3
           q == IF p <= Len(s) /\ s[p] \in {"G2", "Q2", "G1", "Q1"} /\ IsL(s, p + 1)
                THEN p + 2
                ELSE IF IsL(s, p) THEN p + 1 ELSE p
       IN  q - i

\* the matched year text, or None
YearMatch(s) ==
  LET starts == {i \in 1..Len(s) : YearMatchLen(s, i) > 0}
  IN  IF starts = {} THEN None
      ELSE LET i == CHOOSE x \in starts : \A y \in starts : x <= y
           IN  SubSeq(s, i, i + YearMatchLen(s, i) - 1)

\* s.replace(old, new, 1)
ReplaceFirst(s, old, new) ==
  LET starts == {i \in 1..Len(s) : MatchAt(s, old, i)}
  IN  IF old = <<>> \/ starts = {} THEN s
      ELSE LET i == CHOOSE x \in starts : \A y \in starts : x <= y
           IN  SubSeq(s, 1, i - 1) \o new \o SubSeq(s, i + Len(old), Len(s))

\* s.replace(old, new): every non-overlapping occurrence, left to right
RECURSIVE ReplaceAllFrom(_, _, _, _)
ReplaceAllFrom(s, old, new, i) ==
  IF i > Len(s) THEN <<>>
  ELSE IF MatchAt(s, old, i) THEN new \o ReplaceAllFrom(s, old, new, i + Len(old))
       ELSE <<s[i]>> \o ReplaceAllFrom(s, old, new, i + 1)

ReplaceAll(s, old, new) == IF old = <<>> THEN s ELSE ReplaceAllFrom(s, old, new, 1)

\* returns <<cleaned_text, year>>
extract_year_from_text(text) ==
  IF text = <<>> \/ text = None THEN <<text, None>>
  ELSE LET y == YearMatch(text)
       IN  IF y = None THEN <<text, None>>
           ELSE <<Join(Split(ReplaceFirst(text, y, <<>>))), y>>

\* re.sub(r"^ה['\׳]?", '', y) then re.sub(r'[״"\'׳/]', '', y)
NormalizeYear(y) ==
  LET y1 == IF y # <<>> /\ y[1] = "h"
            THEN (IF Len(y) >= 2 /\ y[2] \in {"Q1", "G1"} THEN Drop(y, 2) ELSE Drop(y, 1))
            ELSE y
  IN  RemoveChars(y1, {"G2", "Q2", "Q1", "G1", "/"})

\* re.sub(r'\|?ד[״"׳\'`′″‴]ה\|?\s*', '', s)
DHAt(s, i) == /\ i + 2 <= Len(s)
              /\ s[i] = "d"
              /\ s[i + 1] \in QuoteGlyphs
              /\ s[i + 2] = "h"

RECURSIVE RemoveDHFrom(_, _)
RemoveDHFrom(s, i) ==
  IF i > Len(s) THEN <<>>
  ELSE LET d == IF s[i] = "|" /\ DHAt(s, i + 1) THEN i + 1
                ELSE IF DHAt(s, i) THEN i ELSE 0
       IN  IF d = 0 THEN <<s[i]>> \o RemoveDHFrom(s, i + 1)
           ELSE LET a == IF d + 3 <= Len(s) /\ s[d + 3] = "|" THEN d + 4 ELSE d + 3
                IN  RemoveDHFrom(s, SkipBlanks(s, a))

RemoveDH(s) == Strip(RemoveDHFrom(s, 1))

\* the words kept by the loop of extract_maamar_name_only: a year word with
\* a Hebrew quote glyph is skipped, any other word with one stops the loop
RECURSIVE NameWords(_)
NameWords(words) ==
  IF words = <<>> THEN <<>>
  ELSE LET w == Head(words)
       IN  IF InList("G2", w) \/ InList("G1", w)
           THEN (IF StartsWith(w, <<"t", "s">>) THEN NameWords(Tail(words)) ELSE <<>>)
           ELSE <<w>> \o NameWords(Tail(words))

extract_maamar_name_only(text) ==
  IF text = <<>> THEN text
  ELSE Strip(Join(NameWords(Split(RemoveDH(text)))))

\* ------------------------------------------------------------------------
\* Python dict and list primitives
\* ------------------------------------------------------------------------

\* d.get(k, default)
Get(d, k, default) == IF k \in DOMAIN d THEN d[k] ELSE default

\* d[k] = v
Put(d, k, v) == (k :> v) @@ d

\* d.pop(k, None)
Pop(d, k) == [x \in (DOMAIN d) \ {k} |-> d[x]]

\* bool(x) of a str, a list or None
Truthy(x) == x # None /\ x # <<>>

\* [x for x in lst if Keep(x)]
Filter(lst, Keep(_)) ==
  LET F[i \in 0..Len(lst)] ==
        IF i = 0 THEN <<>>
        ELSE IF Keep(lst[i]) THEN Append(F[i - 1], lst[i]) ELSE F[i - 1]
  IN  F[Len(lst)]

\* list.sort(key=..., reverse=True) and list.sort(key=...): Python's sort is
\* stable in both directions, so x goes before the first element it strictly
\* precedes and after every element with an equal key.
InsertBy(x, sorted, Before(_, _)) ==
  LET hits == {j \in 1..Len(sorted) : Before(x, sorted[j])}
      p == IF hits = {} THEN Len(sorted) + 1
           ELSE CHOOSE j \in hits : \A k \in hits : j <= k
  IN  SubSeq(sorted, 1, p - 1) \o <<x>> \o SubSeq(sorted, p, Len(sorted))

StableSort(lst, Before(_, _)) ==
  LET S[i \in 0..Len(lst)] ==
        IF i = 0 THEN <<>> ELSE InsertBy(lst[i], S[i - 1], Before)
  IN  S[Len(lst)]

\* tuple comparison a > b of two equally long tuples of integers
RECURSIVE TupleGT(_, _)
TupleGT(a, b) ==
  IF a = <<>> THEN FALSE
  ELSE IF Head(a) # Head(b) THEN Head(a) > Head(b)
       ELSE TupleGT(Tail(a), Tail(b))

\* int(True) = 1, int(False) = 0
BoolInt(b) == IF b THEN 1 ELSE 0

\* int((num / den) * 100) for 0 <= num and 0 < den
Percent(num, den) == (num * 100) \div den

\* ------------------------------------------------------------------------
\* expand_abbreviations (the table _ABBREVIATIONS is loaded with the corpus)
\* ------------------------------------------------------------------------

\* quote_chars, in the order the code tries them
QuoteChars == <<"Q2", "Q1", "G2", "G1", "BT", "P1", "P2", "P3">>

\* abbr.replace('"', q).replace("'", q).replace('״', q).replace('׳', q)
AbbrVariant(abbr, q) ==
  List([i \in 1..Len(abbr) |-> IF abbr[i] \in {"Q2", "Q1", "G2", "G1"} THEN q ELSE abbr[i]])

\* one iteration of the loop over _ABBREVIATIONS.items()
ExpandOne(result, abbr, meaning) ==
  IF abbr = <<>> \/ meaning = <<>> THEN result
  ELSE IF Contains(result, abbr) THEN ReplaceAll(result, abbr, meaning)
  ELSE IF \E i \in 1..Len(abbr) : abbr[i] \in {"Q2", "Q1", "G2", "G1"}
       THEN LET hits == {n \in 1..Len(QuoteChars) :
                            Contains(result, AbbrVariant(abbr, QuoteChars[n]))}
            IN  IF hits = {} THEN result
                ELSE LET n == CHOOSE x \in hits : \A y \in hits : x <= y
                     IN  ReplaceAll(result, AbbrVariant(abbr, QuoteChars[n]), meaning)
       ELSE result

RECURSIVE ExpandFrom(_, _, _)
ExpandFrom(result, table, i) ==
  IF i > Len(table) THEN result
  ELSE ExpandFrom(ExpandOne(result, table[i][1], table[i][2]), table, i + 1)

\* table: the items of _ABBREVIATIONS, a sequence of <<abbreviation, meaning>>
expand_abbreviations(text, table) ==
  IF text = <<>> \/ table = <<>> THEN text ELSE ExpandFrom(text, table, 1)

\* ------------------------------------------------------------------------
\* The loaded corpus: load_maamarim keeps the record map in _MAAMARIM_CACHE
\* and the tables of __meta__ in _ABBREVIATIONS and _KEYWORD_ALIASES.  A dict
\* is iterated in insertion order, so the record map is a sequence.
\* ------------------------------------------------------------------------

\* k1: a maamar record of the corpus
Record_k1 ==
  [key |-> "k1", filename |-> "f1",
   name |-> <<"b", "a", "t", "y", " ", "l", "g", "n", "y", " ", "t", "s", "y", "G2", "a">>,
   year |-> <<"t", "s", "y", "G2", "a">>,
   text |-> <<"s", "b", "t", " ", "s", "b", "t">>,
   keywords_all |-> <<<<"s", "b", "t">>>>,
   embedding |-> <<1, 0>>]

\* k2: a maamar record of the corpus, without text, keywords or embedding
\* (the code tests only whether get('embedding') is truthy)
Record_k2 ==
  [key |-> "k2", filename |-> "f2",
   name |-> <<"b", "a", "t", "y", " ", "l", "g", "n", "y", " ", "t", "s", "y", "G2", "b">>,
   year |-> <<"t", "s", "y", "G2", "b">>,
   text |-> <<>>,
   keywords_all |-> <<>>,
   embedding |-> <<>>]

\* k3: a maamar record of the corpus
Record_k3 ==
  [key |-> "k3", filename |-> "f3",
   name |-> <<"d", "G2", "h", " ", "b", "a", "t", "y", " ", "l", "g", "n", "y", " ", "t", "s", "y", "G2", "g">>,
   year |-> <<>>,
   text |-> <<"d", "v", "d", " ", "v", "y", "h", "v", "n", "t", "N">>,
   keywords_all |-> <<<<"y", "h", "v", "n", "t", "N">>, <<"d", "v", "d">>>>,
   embedding |-> <<-1, 0>>]

\* k4 with a well-formed embedding vector
Record_k4 ==
  [key |-> "k4", filename |-> "f4",
   name |-> <<"s", "G2", "p", " ", "y", "h", "v", "n", "t", "N", " ", "t", "s", "y", "G2", "a">>,
   year |-> <<"t", "s", "y", "G2", "a">>,
   text |-> <<"y", "h", "v", "n", "t", "N">>,
   keywords_all |-> <<<<"y", "h", "v", "n", "t", "N">>>>,
   embedding |-> <<3, 4>>]

\* k4 as stored by a corpus build whose embedding has another dimension
Record_k4_short ==
  [key |-> "k4", filename |-> "f4",
   name |-> <<"s", "G2", "p", " ", "y", "h", "v", "n", "t", "N", " ", "t", "s", "y", "G2", "a">>,
   year |-> <<"t", "s", "y", "G2", "a">>,
   text |-> <<"y", "h", "v", "n", "t", "N">>,
   keywords_all |-> <<<<"y", "h", "v", "n", "t", "N">>>>,
   embedding |-> <<1>>]

CorpusA == <<Record_k1, Record_k2, Record_k3, Record_k4>>

CorpusB == <<Record_k1, Record_k2, Record_k3, Record_k4_short>>

\* _ABBREVIATIONS.items()
Abbreviations == <<<<<<"s", "Q2", "p">>, <<"s", "b", "t", " ", "p", "r", "s", "t">>>>>>

\* _KEYWORD_ALIASES.items()
KeywordAliases == <<<<<<"s", "b", "t">>, <<<<"s", "b", "t">>, <<"s", "G2", "q">>>>>>>>

\* ------------------------------------------------------------------------
\* Title matching: exact_search_name and mara_makom_word_match_search
\* ------------------------------------------------------------------------

\* \w of a str pattern
WordChar(c) == c \in HebrewLetters \cup Digits

\* \b at the gap before the 1-based index i of s
BoundaryAt(s, i) ==
  LET left  == i - 1 >= 1 /\ i - 1 <= Len(s) /\ WordChar(s[i - 1])
      right == i >= 1 /\ i <= Len(s) /\ WordChar(s[i])
  IN  left # right

\* re.search(r'\b' + re.escape(q) + r'\b', s)
WholeWordSearch(q, s) ==
  \E i \in 1..Len(s) :
     MatchAt(s, q, i) /\ BoundaryAt(s, i) /\ BoundaryAt(s, i + Len(q))

ExactCandidate(m) ==
  [key |-> m.key, name |-> m.name, year |-> m.year, filename |-> m.filename,
   text |-> m.text, keywords_all |-> m.keywords_all, embedding |-> m.embedding,
   score |-> 100, fuzzy_score |-> 100, keyword_score |-> 0, semantic_score |-> 0]

exact_search_name(maamar_name, maamarim, top_n) ==
  LET query_normalized == normalize_text(maamar_name, 0)
      Hit(m) == /\ m.name # <<>>
                /\ WholeWordSearch(query_normalized, normalize_text(m.name, 0))
      results == List([i \in 1..Len(Filter(maamarim, Hit)) |->
                         ExactCandidate(Filter(maamarim, Hit)[i])])
      Shorter(x, y) == Len(x.name) < Len(y.name)
  IN  IF Strip(query_normalized) = <<>> THEN <<>>
      ELSE Take(StableSort(results, Shorter), top_n)

\* maamar.get('year'), or the year found in the name when that is empty
YearValue(m) ==
  IF Truthy(m.year) THEN m.year
  ELSE IF YearMatch(m.name) # None THEN YearMatch(m.name) ELSE m.year

\* sum(1 for w in query_words if w in name_words)
WordsFound(query_words, name_words) ==
  Cardinality({i \in 1..Len(query_words) : query_words[i] \in name_words})

MaraMakomCandidate(m, query_words, table) ==
  LET name_norm   == normalize_text(expand_abbreviations(m.name, table), 3)
      words_found == WordsFound(query_words, ToSet(Split(name_norm)))
      total_words == Len(query_words)
  IN  [key |-> m.key, name |-> m.name, filename |-> m.filename, text |-> m.text,
       year |-> YearValue(m), keywords_all |-> m.keywords_all,
       embedding |-> m.embedding,
       score |-> IF total_words # 0 THEN Percent(words_found, total_words) ELSE 0,
       fuzzy_score |-> IF total_words # 0 THEN Percent(words_found, total_words) ELSE 0,
       keyword_score |-> 0, semantic_score |-> 0,
       words_found |-> words_found, total_words |-> total_words]

\* key=(words_found, score, -len(name)), reverse=True
MaraMakomBefore(x, y) ==
  TupleGT(<<x.words_found, x.score, -Len(x.name)>>,
          <<y.words_found, y.score, -Len(y.name)>>)

mara_makom_word_match_search(maamar_name, maamarim, table, top_n) ==
  IF ~Truthy(maamar_name) THEN <<>>
  ELSE
    LET query_norm  == normalize_text(expand_abbreviations(RemoveDH(maamar_name), table), 3)
        query_words == Split(query_norm)
        Named(m)    == m.name # <<>>
        named       == Filter(maamarim, Named)
        all         == List([i \in 1..Len(named) |->
                               MaraMakomCandidate(named[i], query_words, table)])
        Found(c)    == c.words_found > 0
        results     == Filter(all, Found)
    IN  IF query_words = <<>> THEN <<>>
        ELSE Take(StableSort(results, MaraMakomBefore), top_n)

\* ------------------------------------------------------------------------
\* Keyword extraction: extract_keywords_from_question and its helpers
\* ------------------------------------------------------------------------

\* the characters in increasing code point order
CodePointOrder ==
  <<"NL", " ", "!", "Q2", "Q1", "(", ")", ",", "-", ".", "/", "7", ":", ";",
   "?", "[", "]", "BT", "{", "|", "}", "NQ", "a", "b", "g", "d", "h", "v",
   "z", "H", "T", "y", "K", "k", "l", "M", "m", "N", "n", "x", "e", "F", "p",
   "C", "c", "q", "r", "s", "t", "G1", "G2", "P1", "P2", "P3">>

\* ord(c), up to an order-preserving renumbering
CodePoint(c) == CHOOSE i \in 1..Len(CodePointOrder) : CodePointOrder[i] = c

\* a < b for two str values
RECURSIVE StrLess(_, _)
StrLess(a, b) ==
  IF b = <<>> THEN FALSE
  ELSE IF a = <<>> THEN TRUE
  ELSE IF Head(a) = Head(b) THEN StrLess(Tail(a), Tail(b))
  ELSE CodePoint(Head(a)) < CodePoint(Head(b))

\* s.split(sep) for a non-empty separator sep
RECURSIVE SplitOnFrom(_, _, _, _)
SplitOnFrom(s, sep, i, cur) ==
  IF i > Len(s) THEN <<cur>>
  ELSE IF MatchAt(s, sep, i)
       THEN <<cur>> \o SplitOnFrom(s, sep, i + Len(sep), <<>>)
       ELSE SplitOnFrom(s, sep, i + 1, Append(cur, s[i]))

SplitOn(s, sep) == SplitOnFrom(s, sep, 1, <<>>)

\* the stop words of keyword_search and of _tokenize_query_keywords
stop_words ==
  {<<"m","h">>, <<"m","y">>, <<"a","y","K">>, <<"l","m","h">>,
   <<"h","a","M">>, <<"a","y","p","h">>, <<"m","t","y">>, <<"k","m","h">>,
   <<"s","l">>, <<"e","l">>, <<"a","t">>, <<"e","M">>, <<"l","p","y">>,
   <<"a","l">>, <<"m","N">>, <<"b">>, <<"l">>, <<"k">>, <<"m">>,
   <<"h","r","b">>, <<"r","b">>, <<"d","e","t">>, <<"a","v","m","r">>,
   <<"m","x","b","y","r">>, <<"m","d","b","r">>, <<"a","v","m","r","y","M">>,
   <<"z","h">>, <<"z","v">>, <<"z","a","t">>, <<"a","l","h">>,
   <<"a","l","v">>, <<"k","l">>, <<"k","v","l","M">>, <<"k","v","l","N">>,
   <<"h","k","l">>, <<"y","s">>, <<"a","y","N">>, <<"y","h","y","h">>,
   <<"h","y","h">>, <<"a","v">>, <<"v","g","M">>, <<"a","b","l">>,
   <<"r","q">>, <<"g","M">>, <<"a","F">>, <<"k","y">>, <<"a","M">>, <<"s">>}

number_phrases ==
  <<<<"a","H","d"," ","e","s","r","h">>, <<"a","H","d"," ","e","s","r">>,
   <<"s","t","y","y","M"," ","e","s","r","h">>,
   <<"s","t","y","y","M"," ","e","s","r">>,
   <<"s","l","v","s"," ","e","s","r","h">>,
   <<"s","l","v","s"," ","e","s","r">>,
   <<"a","r","b","e"," ","e","s","r","h">>,
   <<"a","r","b","e"," ","e","s","r">>, <<"H","m","s"," ","e","s","r","h">>,
   <<"H","m","s"," ","e","s","r">>, <<"s","s"," ","e","s","r","h">>,
   <<"s","s"," ","e","s","r">>, <<"s","b","e"," ","e","s","r","h">>,
   <<"s","b","e"," ","e","s","r">>,
   <<"s","m","v","n","h"," ","e","s","r","h">>,
   <<"s","m","v","n","h"," ","e","s","r">>,
   <<"t","s","e"," ","e","s","r","h">>, <<"t","s","e"," ","e","s","r">>,
   <<"s","l","v","s"," ","m","a","v","t">>,
   <<"a","r","b","e"," ","m","a","v","t">>,
   <<"H","m","s"," ","m","a","v","t">>, <<"s","s"," ","m","a","v","t">>,
   <<"s","b","e"," ","m","a","v","t">>,
   <<"s","m","v","n","h"," ","m","a","v","t">>,
   <<"t","s","e"," ","m","a","v","t">>>>

number_words ==
  {<<"a","H","d">>, <<"s","t","y","y","M">>, <<"s","l","v","s">>,
   <<"a","r","b","e">>, <<"H","m","s">>, <<"s","s">>, <<"s","b","e">>,
   <<"s","m","v","n","h">>, <<"t","s","e">>, <<"e","s","r">>,
   <<"e","s","r","h">>, <<"e","s","r","y","M">>, <<"s","l","v","s","y","M">>,
   <<"a","r","b","e","y","M">>, <<"H","m","y","s","y","M">>,
   <<"s","y","s","y","M">>, <<"s","b","e","y","M">>,
   <<"s","m","v","n","y","M">>, <<"t","s","e","y","M">>, <<"m","a","h">>,
   <<"m","a","t","y","y","M">>, <<"y","a">>, <<"y","b">>, <<"y","g">>,
   <<"y","d">>, <<"T","v">>, <<"T","z">>, <<"y","z">>, <<"y","H">>,
   <<"y","T">>, <<"k">>, <<"l">>}

\* one round of the loop over the number phrases
RemovePhrase(result, phrase) ==
  IF Contains(result, phrase)
  THEN ReplaceAll(ReplaceAll(ReplaceAll(result,
                                        <<" ">> \o phrase \o <<" ">>, <<" ">>),
                             phrase \o <<" ">>, <<>>),
                  <<" ">> \o phrase, <<>>)
  ELSE result

RECURSIVE RemovePhrases(_, _, _)
RemovePhrases(result, phrases, i) ==
  IF i > Len(phrases) \/ result = <<>> THEN result
  ELSE RemovePhrases(RemovePhrase(result, phrases[i]), phrases, i + 1)

_remove_numbers_from_keyword(keyword) ==
  IF keyword = <<>> THEN keyword
  ELSE LET Longer(x, y)  == Len(x) > Len(y)
           result        == RemovePhrases(keyword, StableSort(number_phrases, Longer), 1)
           NotNumber(w)  == w \notin number_words
           result_final  == Strip(Join(Filter(Split(result), NotNumber)))
       IN  IF result_final = <<>> \/ result_final = keyword THEN keyword
           ELSE result_final

\* [kw.strip() for kw in answer.split(sep) if kw.strip()]
StrippedParts(answer, sep) ==
  LET parts      == SplitOn(answer, sep)
      stripped   == List([i \in 1..Len(parts) |-> Strip(parts[i])])
      NonEmpty(p) == p # <<>>
  IN  Filter(stripped, NonEmpty)

\* "אין"
EinWord == <<"a", "y", "N">>

\* the split of one keyword at a conjunctive vav
VavParts(kw) ==
  IF Contains(kw, <<" ", "v">>) THEN StrippedParts(kw, <<" ", "v">>)
  ELSE IF StartsWith(kw, <<"v">>) /\ Len(kw) > 1 THEN <<Strip(Drop(kw, 1))>>
  ELSE <<kw>>

RECURSIVE Concat(_)
Concat(lists) == IF lists = <<>> THEN <<>> ELSE Head(lists) \o Concat(Tail(lists))

\* the keyword, or its form without number words when that differs
CleanedKeyword(kw) ==
  LET kw_cleaned == _remove_numbers_from_keyword(kw)
  IN  IF kw_cleaned # <<>> /\ Strip(kw_cleaned) # <<>> /\ kw_cleaned # kw
      THEN kw_cleaned ELSE kw

\* a keyword of three characters or more, or one that carries a quote glyph
LongEnough(kw) ==
  \/ Len(Strip(RemoveChars(kw, QuoteGlyphs))) >= 3
  \/ \E i \in 1..Len(kw) : kw[i] \in QuoteGlyphs

\* the keyword list that extract_keywords_from_question builds from the
\* answer of the chat completion (already stripped)
ParseAnswer(answer) ==
  IF answer = EinWord THEN <<>>
  ELSE
    LET by_comma == StrippedParts(answer, <<",">>)
        NotEin(p) == p # EinWord
        keywords == IF by_comma # <<>> THEN by_comma
                    ELSE Filter(StrippedParts(answer, <<"NL">>), NotEin)
        expanded == Concat(List([i \in 1..Len(keywords) |-> VavParts(keywords[i])]))
        cleaned  == List([i \in 1..Len(expanded) |-> CleanedKeyword(expanded[i])])
    IN  Filter(StableSort(cleaned, StrLess), LongEnough)

\* ------------------------------------------------------------------------
\* Mention counting: _count_phrase_mentions_in_text and
\* _count_keyword_mentions_in_text
\* ------------------------------------------------------------------------

\* len(re.findall(re.escape(p), s)) for a non-empty p: the occurrences are
\* taken left to right and do not overlap
RECURSIVE CountFrom(_, _, _)
CountFrom(s, p, i) ==
  IF i + Len(p) - 1 > Len(s) THEN 0
  ELSE IF MatchAt(s, p, i) THEN 1 + CountFrom(s, p, i + Len(p))
       ELSE CountFrom(s, p, i + 1)

CountOccurrences(s, p) == CountFrom(s, p, 1)

\* _KEYWORD_ALIASES.get(ph0) or []
AliasesOf(aliases_table, ph0) ==
  LET hits == {i \in 1..Len(aliases_table) : aliases_table[i][1] = ph0}
  IN  IF hits = {} THEN <<>> ELSE aliases_table[CHOOSE i \in hits : TRUE][2]

\* the sum, over the aliases from the i-th on, of their occurrences
RECURSIVE AliasTotal(_, _, _)
AliasTotal(norm_text, aliases, i) ==
  IF i > Len(aliases) THEN 0
  ELSE LET a_norm == normalize_text(aliases[i], 3)
       IN  (IF a_norm = <<>> THEN 0 ELSE CountOccurrences(norm_text, a_norm))
           + AliasTotal(norm_text, aliases, i + 1)

RECURSIVE CountPhrasesFrom(_, _, _, _, _)
CountPhrasesFrom(norm_text, phrases, aliases_table, i, counts) ==
  IF i > Len(phrases) THEN counts
  ELSE IF phrases[i] = <<>>
       THEN CountPhrasesFrom(norm_text, phrases, aliases_table, i + 1, counts)
       ELSE LET ph0     == Strip(phrases[i])
                looked  == AliasesOf(aliases_table, ph0)
                aliases == IF looked = <<>> THEN <<ph0>> ELSE looked
            IN  CountPhrasesFrom(norm_text, phrases, aliases_table, i + 1,
                                 Put(counts, ph0, AliasTotal(norm_text, aliases, 1)))

_count_phrase_mentions_in_text(text, phrases, aliases_table) ==
  IF text = <<>> \/ phrases = <<>> THEN <<>>
  ELSE CountPhrasesFrom(normalize_text(text, 3), phrases, aliases_table, 1, <<>>)

\* a match of (?<!\S)tok(?!\S) at the 1-based position i
WordMatchAt(s, tok, i) ==
  /\ MatchAt(s, tok, i)
  /\ (i = 1 \/ s[i - 1] \in Whitespace)
  /\ (i + Len(tok) > Len(s) \/ s[i + Len(tok)] \in Whitespace)

RECURSIVE CountWordFrom(_, _, _)
CountWordFrom(s, tok, i) ==
  IF i + Len(tok) - 1 > Len(s) THEN 0
  ELSE IF WordMatchAt(s, tok, i) THEN 1 + CountWordFrom(s, tok, i + Len(tok))
       ELSE CountWordFrom(s, tok, i + 1)

RECURSIVE TokenTotal(_, _, _)
TokenTotal(norm_text, tokens, i) ==
  IF i > Len(tokens) THEN 0
  ELSE (IF tokens[i] = <<>> THEN 0 ELSE CountWordFrom(norm_text, tokens[i], 1))
       + TokenTotal(norm_text, tokens, i + 1)

_count_keyword_mentions_in_text(text, tokens) ==
  IF text = <<>> \/ tokens = <<>> THEN 0
  ELSE IF normalize_text(text, 3) = <<>> THEN 0
       ELSE TokenTotal(normalize_text(text, 3), tokens, 1)

\* ------------------------------------------------------------------------
\* keyword_search
\* ------------------------------------------------------------------------

\* one row of the table of longest common subsequence lengths: prev is the
\* row of the prefix before the character x, row the part already built
RECURSIVE LCSRow(_, _, _, _, _)
LCSRow(x, b, prev, row, j) ==
  IF j > Len(b) THEN row
  ELSE LCSRow(x, b, prev,
              Append(row, IF x = b[j] THEN prev[j] + 1 ELSE Max(prev[j + 1], row[j])),
              j + 1)

RECURSIVE LCSRows(_, _, _, _)
LCSRows(a, b, i, prev) ==
  IF i > Len(a) THEN prev[Len(b) + 1]
  ELSE LCSRows(a, b, i + 1, LCSRow(a[i], b, prev, <<0>>, 1))

\* the length of a longest common subsequence of a and b
LCS(a, b) == LCSRows(a, b, 1, List([j \in 1..(Len(b) + 1) |-> 0]))

\* fuzz.ratio(a, b) of rapidfuzz, the normalised Indel similarity
\* 100 * 2 * LCS / (len(a) + len(b)), kept as the fraction <<num, den>>
fuzz_ratio(a, b) ==
  IF Len(a) + Len(b) = 0 THEN <<100, 1>> ELSE <<200 * LCS(a, b), Len(a) + Len(b)>>

\* x > y and x >= n for fractions with positive denominators
RatioGT(x, y) == x[1] * y[2] > y[1] * x[2]

RatioGE(x, n) == x[1] >= n * x[2]

FUZZY_THRESHOLD == 85

\* the de-duplication of the extracted keywords by their level-3 form
RECURSIVE DedupFrom(_, _, _)
DedupFrom(ai_keywords, i, seen_norm) ==
  IF i > Len(ai_keywords) THEN <<>>
  ELSE LET kw   == Strip(ai_keywords[i])
           norm == Strip(normalize_text(kw, 3))
       IN  IF kw = <<>> \/ norm = <<>> \/ norm \in seen_norm
           THEN DedupFrom(ai_keywords, i + 1, seen_norm)
           ELSE <<kw>> \o DedupFrom(ai_keywords, i + 1, seen_norm \cup {norm})

\* the list without its repeated members, first occurrences kept in order
RECURSIVE UniqueFrom(_, _, _)
UniqueFrom(lst, i, seen) ==
  IF i > Len(lst) THEN <<>>
  ELSE IF lst[i] \in seen THEN UniqueFrom(lst, i + 1, seen)
       ELSE <<lst[i]>> \o UniqueFrom(lst, i + 1, seen \cup {lst[i]})

\* sorted(list(S)) for a set S of str
RECURSIVE SortedList(_)
SortedList(S) ==
  IF S = {} THEN <<>>
  ELSE LET least == CHOOSE x \in S : \A y \in S \ {x} : StrLess(x, y)
       IN  <<least>> \o SortedList(S \ {least})

\* [w for w in all_words if w not in stop_words and len(w) > 1]
QuestionWords(question) ==
  LET Kept(w) == w \notin stop_words /\ Len(w) > 1
  IN  Filter(Split(normalize_text(question, 3)), Kept)

\* the tokens of a normalised keyword entered for kw, first writer wins
RECURSIVE MapTokens(_, _, _, _)
MapTokens(d, toks, kw, j) ==
  IF j > Len(toks) THEN d
  ELSE MapTokens(IF toks[j] \in DOMAIN d THEN d ELSE Put(d, toks[j], kw),
                 toks, kw, j + 1)

\* normalized_to_original
RECURSIVE NormalizedToOriginal(_, _, _, _)
NormalizedToOriginal(keywords, keywords_normalized, i, d) ==
  IF i > Len(keywords) THEN d
  ELSE LET normalized == IF keywords_normalized # <<>> /\ i <= Len(keywords_normalized)
                         THEN keywords_normalized[i]
                         ELSE normalize_text(keywords[i], 3)
           d1 == IF normalized # <<>> /\ normalized \notin DOMAIN d
                 THEN Put(d, normalized, keywords[i]) ELSE d
       IN  NormalizedToOriginal(keywords, keywords_normalized, i + 1,
                                MapTokens(d1, Split(normalized), keywords[i], 1))

\* the fuzzy fallback: <<best, best_table_kw>> after the loop over the
\* normalised keywords of the candidate from the i-th on
RECURSIVE FuzzyBest(_, _, _, _, _, _)
FuzzyBest(qn, cand_norm_kws, keywords, i, best, best_table_kw) ==
  IF i > Len(cand_norm_kws) THEN <<best, best_table_kw>>
  ELSE IF cand_norm_kws[i] = <<>>
       THEN FuzzyBest(qn, cand_norm_kws, keywords, i + 1, best, best_table_kw)
       ELSE LET s == fuzz_ratio(qn, cand_norm_kws[i])
            IN  IF RatioGT(s, best)
                THEN IF RatioGE(s, 100)
                     THEN <<s, IF i <= Len(keywords) THEN keywords[i] ELSE None>>
                     ELSE FuzzyBest(qn, cand_norm_kws, keywords, i + 1, s,
                                    IF i <= Len(keywords) THEN keywords[i] ELSE None)
                ELSE FuzzyBest(qn, cand_norm_kws, keywords, i + 1, best, best_table_kw)

\* the keyword of the candidate that the question keyword kw is mapped to
\* (question_to_table_keyword[kw]), or None when kw is not found
TableMatch(kw, keywords, cand_norm_kws) ==
  LET qn    == Strip(normalize_text(kw, 3))
      hits  == {i \in 1..Min(Len(keywords), Len(cand_norm_kws)) :
                  keywords[i] # <<>> /\ qn = cand_norm_kws[i]}
      exact_match == IF InList(kw, keywords) THEN kw
                     ELSE IF hits = {} THEN None
                     ELSE keywords[CHOOSE i \in hits : \A j \in hits : i <= j]
      fuzzy == FuzzyBest(qn, cand_norm_kws, keywords, 1, <<0, 1>>, None)
  IN  IF qn = <<>> THEN None
      ELSE IF Truthy(exact_match) THEN exact_match
      ELSE IF RatioGE(fuzzy[1], FUZZY_THRESHOLD) /\ Truthy(fuzzy[2]) THEN fuzzy[2]
      ELSE None

RECURSIVE SumSeq(_)
SumSeq(s) == IF s = <<>> THEN 0 ELSE Head(s) + SumSeq(Tail(s))

MinSeq(s) == CHOOSE x \in ToSet(s) : \A y \in ToSet(s) : x <= y

\* normalized_keywords: the stored normalised forms when they pair up with
\* the keywords, the keywords normalised on the fly otherwise
NormalizedKeywords(keywords, keywords_normalized) ==
  IF keywords_normalized # <<>> /\ Len(keywords_normalized) = Len(keywords)
  THEN keywords_normalized
  ELSE List([i \in 1..Len(keywords) |-> normalize_text(keywords[i], 3)])

\* [normalize_text(kw, level=3) for kw in keywords if kw]
NormalizeEach(kws) == List([i \in 1..Len(kws) |-> normalize_text(kws[i], 3)])

\* cand_norm_kws
CandNormKws(keywords, keywords_normalized) ==
  LET NonEmpty(kw) == kw # <<>>
  IN  IF keywords_normalized # <<>> /\ Len(keywords_normalized) = Len(keywords)
      THEN keywords_normalized
      ELSE NormalizeEach(Filter(keywords, NonEmpty))

\* the search of the question keyword kw in the keyword table reads
\* cand_norm_kws[i] past its end (IndexError): kw is not in the table as it
\* is written, no keyword before the end of cand_norm_kws has its normalised
\* form, and a keyword that is not empty stands after that end
TableRaises(kw, keywords, cand_norm_kws) ==
  /\ Len(cand_norm_kws) < Len(keywords)
  /\ \E i \in (Len(cand_norm_kws) + 1)..Len(keywords) : keywords[i] # <<>>
  /\ Strip(normalize_text(kw, 3)) # <<>>
  /\ ~InList(kw, keywords)
  /\ \A i \in 1..Len(cand_norm_kws) :
       keywords[i] = <<>> \/ Strip(normalize_text(kw, 3)) # cand_norm_kws[i]

\* the round of the candidate raises IndexError
CandidateRaises(candidate, dedup) ==
  /\ Get(candidate, "keywords_all", <<>>) # <<>>
  /\ InList(<<>>, Get(candidate, "keywords_all", <<>>))
  /\ \E i \in 1..Len(dedup) :
       TableRaises(dedup[i], Get(candidate, "keywords_all", <<>>),
                   CandNormKws(Get(candidate, "keywords_all", <<>>),
                               Get(candidate, "keywords_all_normalized", <<>>)))

\* question_to_table_keyword, as the list of the table keywords of the
\* de-duplicated question keywords (None where there is no entry)
QuestionToTableKeyword(dedup, keywords, cand_norm_kws) ==
  List([i \in 1..Len(dedup) |->
          IF keywords = <<>> THEN None
          ELSE TableMatch(dedup[i], keywords, cand_norm_kws)])

\* matching_words after the keyword table has been consulted
InKeywords(ai, dedup, keywords, question_words_list, keywords_set, question_to_table_keyword) ==
  IF keywords = <<>> THEN {}
  ELSE IF ai
       THEN {dedup[i] : i \in {j \in 1..Len(dedup) :
                                 question_to_table_keyword[j] # None}}
       ELSE ToSet(question_words_list) \cap keywords_set

\* phrases_to_search: the table keyword where there is one, else the phrase
PhrasesToSearch(dedup, question_to_table_keyword) ==
  List([i \in 1..Len(dedup) |->
          IF question_to_table_keyword[i] # None THEN question_to_table_keyword[i]
          ELSE dedup[i]])

\* the number of mentions counted for each de-duplicated question keyword
\* (0 throughout when the text is not searched)
AllCounts(in_text, text, phrases_to_search, aliases_table) ==
  LET counts_all_raw == _count_phrase_mentions_in_text(text, phrases_to_search,
                                                       aliases_table)
  IN  List([i \in 1..Len(phrases_to_search) |->
              IF in_text THEN Get(counts_all_raw, phrases_to_search[i], 0) ELSE 0])

\* matching_words at the end of the round
MatchingWords(in_text, in_keywords, dedup, all_counts) ==
  IF in_text
  THEN in_keywords \cup {dedup[i] : i \in {j \in 1..Len(dedup) : all_counts[j] > 0}}
  ELSE in_keywords

\* keyword_score
KeywordScore(ai, found, dedup, question_words_list) ==
  IF found > 0
  THEN Percent(found, IF ai THEN Len(dedup) ELSE Len(question_words_list))
  ELSE 0

\* candidate['matched_keywords']
MatchedList(ai, dedup, matching_words, in_keywords, normalized_to_original) ==
  LET InMatching(kw) == kw \in matching_words
  IN  IF ai THEN Filter(dedup, InMatching)
      ELSE SortedList({Get(normalized_to_original, w, w) : w \in in_keywords})

\* candidate['matched_keyword_counts']
MatchedKeywordCounts(ai, dedup, all_counts, text, matched_list, aliases_table) ==
  IF ai THEN [kw \in ToSet(dedup) |->
                all_counts[CHOOSE i \in 1..Len(dedup) : dedup[i] = kw]]
  ELSE _count_phrase_mentions_in_text(text, matched_list, aliases_table)

\* candidate['score']: the keyword score for a candidate of the
\* question-only search, a bonus of up to 20 points for any other
NewScore(candidate, keyword_score) ==
  IF Get(candidate, "fuzzy_score", 0) = 0 /\ Get(candidate, "score", 0) = 50
  THEN keyword_score
  ELSE Min(100, candidate.score + (keyword_score * 20) \div 100)

\* the sort keys kept on the candidate when the keywords came from the model
WithSortKeys(c, ai, all_counts) ==
  IF ai THEN Put(Put(c, "_min_kw_count", MinSeq(all_counts)),
                 "_sum_kw_count", SumSeq(all_counts))
  ELSE c

\* an update that also writes the matched keywords into the keyword list
\* that the candidate shares with its record
UpdateCandidateAndKeywords(candidate, ai, matching_words, keyword_score, matched_list, matched_keyword_counts, all_counts) ==
  IF matching_words = {} THEN candidate
  ELSE Put(Put(WithSortKeys(Put(Put(Put(candidate, "keyword_score", keyword_score),
                                    "matched_keywords", matched_list),
                                "matched_keyword_counts", matched_keyword_counts),
                            ai, all_counts),
               "score", NewScore(candidate, keyword_score)),
           "keywords_all", matched_list)

\* the update of the candidate, made only when a keyword matched
UpdateCandidate(candidate, ai, matching_words, keyword_score, matched_list, matched_keyword_counts, all_counts) ==
  IF matching_words = {} THEN candidate
  ELSE Put(WithSortKeys(Put(Put(Put(candidate, "keyword_score", keyword_score),
                                "matched_keywords", matched_list),
                            "matched_keyword_counts", matched_keyword_counts),
                        ai, all_counts),
           "score", NewScore(candidate, keyword_score))

\* the round from the point where matching_words is complete
ScoreMatched(candidate, ai, dedup, question_words_list, aliases_table, text, all_counts, matching_words, matched_list) ==
  UpdateCandidate(candidate, ai, matching_words,
                  KeywordScore(ai, Cardinality(matching_words), dedup,
                               question_words_list),
                  matched_list,
                  MatchedKeywordCounts(ai, dedup, all_counts, text, matched_list,
                                       aliases_table),
                  all_counts)

\* the round from the point where the mentions in the text are counted
ScoreCounted(candidate, ai, dedup, question_words_list, aliases_table, text, in_keywords, normalized_to_original, all_counts, matching_words) ==
  ScoreMatched(candidate, ai, dedup, question_words_list, aliases_table, text,
               all_counts, matching_words,
               MatchedList(ai, dedup, matching_words, in_keywords,
                           normalized_to_original))

\* the round from the point where the keyword table has been consulted
ScoreInText(candidate, ai, dedup, question_words_list, aliases_table, text, in_text, in_keywords, normalized_to_original, all_counts) ==
  ScoreCounted(candidate, ai, dedup, question_words_list, aliases_table, text,
               in_keywords, normalized_to_original, all_counts,
               MatchingWords(in_text, in_keywords, dedup, all_counts))

\* the round from the point where question_to_table_keyword is built
ScoreInTable(candidate, ai, dedup, question_words_list, aliases_table, keywords, keywords_normalized, text, question_to_table_keyword) ==
  ScoreInText(candidate, ai, dedup, question_words_list, aliases_table, text,
              ai /\ text # <<>>,
              InKeywords(ai, dedup, keywords, question_words_list,
                         ToSet(Split(Join(NormalizedKeywords(keywords,
                                                             keywords_normalized)))),
                         question_to_table_keyword),
              NormalizedToOriginal(keywords, keywords_normalized, 1, <<>>),
              AllCounts(ai /\ text # <<>>, text,
                        PhrasesToSearch(dedup, question_to_table_keyword),
                        aliases_table))

\* the round for a candidate with the given keyword table
ScoreWithKeywords(candidate, ai, dedup, question_words_list, aliases_table, keywords, keywords_normalized) ==
  ScoreInTable(candidate, ai, dedup, question_words_list, aliases_table, keywords,
               keywords_normalized, Get(candidate, "text", <<>>),
               QuestionToTableKeyword(dedup, keywords,
                                      CandNormKws(keywords, keywords_normalized)))

\* one round of the loop over the candidates.  ai_keywords_dedup is None in
\* the fall-back mode, where question_words_list is used instead.
ScoreCandidate(candidate, ai_keywords_dedup, question_words_list, aliases_table) ==
  ScoreWithKeywords(candidate, Truthy(ai_keywords_dedup),
                    IF Truthy(ai_keywords_dedup) THEN ai_keywords_dedup ELSE <<>>,
                    question_words_list, aliases_table,
                    Get(candidate, "keywords_all", <<>>),
                    Get(candidate, "keywords_all_normalized", <<>>))

\* key=(score, _min_kw_count, _sum_kw_count), reverse=True
KeywordBefore(x, y) ==
  TupleGT(<<Get(x, "score", 0), Get(x, "_min_kw_count", 0), Get(x, "_sum_kw_count", 0)>>,
          <<Get(y, "score", 0), Get(y, "_min_kw_count", 0), Get(y, "_sum_kw_count", 0)>>)

\* key=score, reverse=True
ScoreBefore(x, y) == x.score > y.score

\* c.pop('_min_kw_count', None); c.pop('_sum_kw_count', None)
PopCounts(c) == Pop(Pop(c, "_min_kw_count"), "_sum_kw_count")

\* the loop over the candidates
ScoreAll(candidates, ai_keywords_dedup, question_words_list, aliases_table) ==
  List([i \in 1..Len(candidates) |->
          ScoreCandidate(candidates[i], ai_keywords_dedup, question_words_list,
                         aliases_table)])

\* [PopCounts(c) for c in candidates]
PopCountsAll(s) == List([i \in 1..Len(s) |-> PopCounts(s[i])])

\* the final sort, by the mention counts too when the keywords came from
\* the model
SortScored(scored, by_counts) ==
  IF by_counts THEN PopCountsAll(StableSort(scored, KeywordBefore))
  ELSE StableSort(scored, ScoreBefore)

\* the candidates when the round of the n-th one raises: those before it
\* have been scored in place
ScoredBefore(candidates, n, dedup, question_words_list, aliases_table) ==
  List([i \in 1..Len(candidates) |->
          IF i < n THEN ScoreCandidate(candidates[i], dedup, question_words_list,
                                       aliases_table)
          ELSE candidates[i]])

\* the candidates whose round raises IndexError
RaisingRounds(candidates, dedup) ==
  {i \in 1..Len(candidates) : CandidateRaises(candidates[i], dedup)}

\* keyword_search from the point where the keywords are de-duplicated:
\* dedup is empty when there are no keywords from the model
SearchWithKeywords(candidates, require_ai_keywords, has_ai, ai_keywords, dedup, question_words_list, aliases_table) ==
  IF ~has_ai /\ require_ai_keywords
  THEN [raised |-> "RuntimeError", candidates |-> candidates,
        extracted_keywords |-> None]
  ELSE IF /\ has_ai
          /\ dedup = <<>>
          /\ \E i \in 1..Len(candidates) :
               Get(candidates[i], "keywords_all", <<>>) # <<>>
  THEN [raised |-> "UnboundLocalError", candidates |-> candidates,
        extracted_keywords |-> None]
  ELSE IF dedup # <<>> /\ RaisingRounds(candidates, dedup) # {}
  THEN [raised |-> "IndexError",
        candidates |-> ScoredBefore(candidates,
                                    CHOOSE n \in RaisingRounds(candidates, dedup) :
                                      \A k \in RaisingRounds(candidates, dedup) : n <= k,
                                    dedup, question_words_list, aliases_table),
        extracted_keywords |-> None]
  ELSE [raised |-> None,
        candidates |-> SortScored(ScoreAll(candidates,
                                           IF dedup # <<>> THEN dedup ELSE None,
                                           question_words_list, aliases_table),
                                  dedup # <<>>),
        extracted_keywords |-> IF has_ai THEN ai_keywords
                               ELSE UniqueFrom(question_words_list, 1, {})]

\* keyword_search from the point where the keywords are chosen
SearchChosen(question, candidates, require_ai_keywords, ai_keywords, aliases_table) ==
  SearchWithKeywords(candidates, require_ai_keywords,
                     ai_keywords # None /\ ai_keywords # <<>>, ai_keywords,
                     IF ai_keywords # None /\ ai_keywords # <<>>
                     THEN DedupFrom(ai_keywords, 1, {}) ELSE <<>>,
                     QuestionWords(question), aliases_table)

\* keyword_search, given in extracted what extract_keywords_from_question
\* returns for the question.  The result records the exception that leaves
\* the function (None when it returns), the candidate list and the
\* extracted keywords.
keyword_search(question, candidates, require_ai_keywords, forced_keywords, extracted, aliases_table) ==
  IF ~Truthy(question) \/ candidates = <<>>
  THEN [raised |-> None, candidates |-> candidates, extracted_keywords |-> None]
  ELSE SearchChosen(question, candidates, require_ai_keywords,
                    IF Truthy(forced_keywords) THEN forced_keywords ELSE extracted,
                    aliases_table)

\* ------------------------------------------------------------------------
\* Tie-breaking: _tokenize_query_keywords and _rank_ties_by_keyword_mentions
\* ------------------------------------------------------------------------

\* the words of the normalised keywords, in order
RECURSIVE KeywordTokens(_, _)
KeywordTokens(extracted_keywords, i) ==
  IF i > Len(extracted_keywords) THEN <<>>
  ELSE Split(normalize_text(extracted_keywords[i], 3))
       \o KeywordTokens(extracted_keywords, i + 1)

\* each word, followed by the word without its leading vav
RECURSIVE ExpandVav(_, _)
ExpandVav(base, i) ==
  IF i > Len(base) THEN <<>>
  ELSE (IF StartsWith(base[i], <<"v">>) /\ Len(base[i]) > 2
        THEN <<base[i], Drop(base[i], 1)>> ELSE <<base[i]>>)
       \o ExpandVav(base, i + 1)

_tokenize_query_keywords(question, extracted_keywords) ==
  IF Truthy(extracted_keywords)
  THEN UniqueFrom(KeywordTokens(extracted_keywords, 1), 1, {})
  ELSE LET base == QuestionWords(IF Truthy(question) THEN question ELSE <<>>)
       IN  UniqueFrom(ExpandVav(base, 1), 1, {})

_rank_ties_by_keyword_mentions(results, tokens) ==
  IF results = <<>> \/ tokens = <<>> THEN results
  ELSE
    LET indexed == List([i \in 1..Len(results) |->
                           [item   |-> results[i],
                            counts |-> _count_keyword_mentions_in_text(
                                         Get(results[i], "text", <<>>), tokens)]])
        Before(x, y) == TupleGT(<<Get(x.item, "score", 0), x.counts>>,
                                <<Get(y.item, "score", 0), y.counts>>)
        sorted == StableSort(indexed, Before)
    IN  List([i \in 1..Len(sorted) |-> sorted[i].item])

\* ------------------------------------------------------------------------
\* semantic_search
\* ------------------------------------------------------------------------

\* int(x) of the quotient n / d, d > 0: truncation toward zero
TruncDiv(n, d) == IF n >= 0 THEN n \div d ELSE -((-n) \div d)

RECURSIVE Dot(_, _)
Dot(v, w) == IF v = <<>> THEN 0 ELSE Head(v) * Head(w) + Dot(Tail(v), Tail(w))

\* the largest norm of a vector of the model
MaxNorm == 5

\* np.linalg.norm(v), for the vectors of the model, whose norm is a whole
\* number
Norm(v) == CHOOSE n \in 0..MaxNorm : n * n = Dot(v, v)

\* np.dot(vec1, vec2) raises for vectors of different lengths
DotRaises(vec1, vec2) == Len(vec1) # Len(vec2)

\* int(cosine_similarity(vec1, vec2) * 100) for vectors of one length
SemanticScore(vec1, vec2) ==
  IF Norm(vec1) = 0 \/ Norm(vec2) = 0 THEN 0
  ELSE TruncDiv(100 * Dot(vec1, vec2), Norm(vec1) * Norm(vec2))

\* the arguments at which the binary floating point sum score*0.7 + s*0.3
\* falls just below the whole number (7*score + 3*s) / 10, for scores in
\* 0..100 and the similarities -100, -60, 0, 60, 100 of the model's vectors
FloatShortfall == {<<90, -100>>, <<90, -60>>, <<90, 0>>}

\* int(score * 0.7 + semantic_score * 0.3)
Blend(score, semantic_score) ==
  IF <<score, semantic_score>> \in FloatShortfall
  THEN TruncDiv(7 * score + 3 * semantic_score, 10) - 1
  ELSE TruncDiv(7 * score + 3 * semantic_score, 10)

\* c.get('embedding') is truthy
HasEmbedding(c) == Truthy(Get(c, "embedding", None))

\* the candidate after one round of the blending loop
Blended(candidate, question_embedding) ==
  LET semantic_score == SemanticScore(question_embedding, candidate.embedding)
  IN  Put(Put(candidate, "score", Blend(candidate.score, semantic_score)),
          "semantic_score", semantic_score)

\* the candidates after the blending loop has run until its end or until
\* the first candidate at which the similarity raises: the candidates
\* before that one are blended, the others are as they were
BlendUntilError(candidates, question_embedding) ==
  LET Fails(i) == /\ HasEmbedding(candidates[i])
                  /\ DotRaises(question_embedding, candidates[i].embedding)
      failing  == {i \in 1..Len(candidates) : Fails(i)}
      stop     == IF failing = {} THEN Len(candidates) + 1
                  ELSE CHOOSE i \in failing : \A j \in failing : i <= j
  IN  List([i \in 1..Len(candidates) |->
              IF i < stop /\ HasEmbedding(candidates[i])
              THEN Blended(candidates[i], question_embedding)
              ELSE candidates[i]])

\* whether semantic_search reaches the embedding request
ReachesEmbedding(question, candidates, enabled) ==
  /\ Truthy(question)
  /\ candidates # <<>>
  /\ enabled
  /\ \E i \in 1..Len(candidates) : HasEmbedding(candidates[i])

\* semantic_search, given in question_embedding the vector that the
\* embedding request returns (None when the request fails).  The openai
\* and numpy packages are installed.
semantic_search(question, candidates, enabled, question_embedding) ==
  IF ~ReachesEmbedding(question, candidates, enabled) THEN candidates
  ELSE IF question_embedding = None THEN candidates
  ELSE
    LET blended == BlendUntilError(candidates, question_embedding)
        raises  == \E i \in 1..Len(candidates) :
                      /\ HasEmbedding(candidates[i])
                      /\ DotRaises(question_embedding, candidates[i].embedding)
    IN  IF raises THEN blended
        ELSE StableSort(Filter(blended, HasEmbedding), ScoreBefore)

\* ------------------------------------------------------------------------
\* The keyword cache and the extraction request
\* ------------------------------------------------------------------------

\* the key of a question in the keyword cache
KeyOf(question) == Strip(IF Truthy(question) THEN question ELSE <<>>)

\* extract_keywords_from_question after a miss: the service is requested,
\* the answer is parsed and stored (lines 521-658)
RequestKeywords(question, cache, answer) ==
  IF answer = None
  THEN [value |-> None, cache |-> cache, requested |-> TRUE]
  ELSE IF Strip(answer) = EinWord
       THEN [value |-> <<>>, cache |-> Put(cache, KeyOf(question), <<>>),
             requested |-> TRUE]
       ELSE [value |-> ParseAnswer(Strip(answer)),
             cache |-> IF KeyOf(question) # <<>>
                       THEN Put(cache, KeyOf(question), ParseAnswer(Strip(answer)))
                       ELSE cache,
             requested |-> TRUE]

\* q_key and q_key in _EXTRACTED_KEYWORDS_CACHE
CacheHit(question, cache) ==
  KeyOf(question) # <<>> /\ KeyOf(question) \in DOMAIN cache

\* extract_keywords_from_question without the lookup in the cache
extract_keywords_unconditionally(question, cache, answer) ==
  RequestKeywords(question, cache, answer)

\* extract_keywords_from_question, given the keyword cache and in answer
\* the content of the chat completion (None when the request fails, the
\* status is not 200 or no API key is set).  The result is the value
\* returned, the cache afterwards and whether the service was requested.
extract_keywords_from_question(question, cache, answer) ==
  IF CacheHit(question, cache)
  THEN [value |-> cache[KeyOf(question)], cache |-> cache, requested |-> FALSE]
  ELSE RequestKeywords(question, cache, answer)

\* ------------------------------------------------------------------------
\* search_maamar
\* ------------------------------------------------------------------------

\* the parameter processing: the quotes and the word "מאמר" are removed
\* from the title, a year is taken from the title when none is given, and
\* the year is normalised
Preprocess(maamar_name, year) ==
  LET stripped == Strip(maamar_name)
      exact_match_only == /\ Truthy(maamar_name)
                          /\ StartsWith(stripped, <<"Q2">>)
                          /\ EndsWith(stripped, <<"Q2">>)
      unquoted == IF exact_match_only THEN SubSeq(stripped, 2, Len(stripped) - 1)
                  ELSE maamar_name
      cleaned  == IF Truthy(unquoted) THEN clean_maamar_name(Strip(unquoted))
                  ELSE unquoted
      from_text == extract_year_from_text(cleaned)
      derived  == Truthy(cleaned) /\ ~Truthy(year) /\ Truthy(from_text[2])
      name     == IF derived THEN from_text[1] ELSE cleaned
      yr       == IF derived THEN from_text[2] ELSE year
      has_maamar_name == Truthy(name) /\ Strip(name) # <<>>
  IN  [maamar_name      |-> name,
       year_normalized  |-> IF Truthy(yr) THEN NormalizeYear(yr) ELSE None,
       exact_match_only |-> exact_match_only,
       has_maamar_name  |-> has_maamar_name,
       has_year_only    |-> Truthy(yr) /\ NormalizeYear(yr) # <<>> /\ ~has_maamar_name]

\* the candidate of the year-only branch
YearOnlyCandidate(m) ==
  [key |-> m.key, name |-> m.name, year |-> m.year, filename |-> m.filename,
   text |-> m.text, keywords_all |-> m.keywords_all, embedding |-> m.embedding,
   score |-> 100, fuzzy_score |-> 0, keyword_score |-> 0, semantic_score |-> 0]

YearOnlyCandidates(maamarim, year_normalized) ==
  LET OfYear(m) == NormalizeYear(m.year) = year_normalized
      found == Filter(maamarim, OfYear)
  IN  List([i \in 1..Len(found) |-> YearOnlyCandidate(found[i])])

\* the candidate of the question-only branch
QuestionOnlyCandidate(m) ==
  [key |-> m.key, name |-> m.name, filename |-> m.filename, text |-> m.text,
   keywords_all |-> m.keywords_all, embedding |-> m.embedding,
   score |-> 50, fuzzy_score |-> 0, keyword_score |-> 0, semantic_score |-> 0]

QuestionOnlyCandidates(maamarim) ==
  List([i \in 1..Len(maamarim) |-> QuestionOnlyCandidate(maamarim[i])])

\* a year filter that keeps every result
InAnyYear(r, year_normalized) == TRUE

\* the year filter of the title branch
InYear(r, year_normalized) ==
  LET given == Get(r, "year", None)
      maamar_year == IF Truthy(given) THEN given ELSE YearMatch(Get(r, "name", <<>>))
  IN  maamar_year # None /\ NormalizeYear(maamar_year) = year_normalized

\* top_n = max_results * 2 if max_results > 0 else 1000
TopN(max_results) == IF max_results > 0 THEN max_results * 2 ELSE 1000

\* the candidates of the title branch: the mareh-makom matches cut to
\* top_n, then filtered by the year
TitleCandidates(maamar_name, year_normalized, maamarim, abbreviations, max_results) ==
  LET name_only  == extract_maamar_name_only(maamar_name)
      clean_name == IF name_only = <<>> THEN maamar_name ELSE name_only
      matches    == mara_makom_word_match_search(clean_name, maamarim, abbreviations,
                                                 TopN(max_results))
      Kept(r)    == InYear(r, year_normalized)
  IN  IF Truthy(year_normalized) /\ matches # <<>> THEN Filter(matches, Kept)
      ELSE matches

\* the result of the title branch with the keyword fields of the sort and
\* a score raised by the mentions of the keywords
WithKeywordScore(r, extracted_keywords, aliases_table) ==
  LET keyword_counts == _count_phrase_mentions_in_text(Get(r, "text", <<>>),
                                                       extracted_keywords, aliases_table)
      counts == List([i \in 1..Len(extracted_keywords) |->
                        Get(keyword_counts, extracted_keywords[i], 0)])
      keywords_found_count == Cardinality({i \in 1..Len(counts) : counts[i] > 0})
  IN  Put(Put(Put(Put(Put(r, "score", r.score + SumSeq(counts)), "_matched_keywords_count", keywords_found_count),
                  "_matched_keywords_total", SumSeq(counts)),
              "_matched_keyword_counts", keyword_counts),
          "_has_all_keywords", keywords_found_count = Len(extracted_keywords))

\* the result of the title branch with the keyword fields of the sort
WithKeywordCounts(r, extracted_keywords, aliases_table) ==
  LET keyword_counts == _count_phrase_mentions_in_text(Get(r, "text", <<>>),
                                                       extracted_keywords, aliases_table)
      counts == List([i \in 1..Len(extracted_keywords) |->
                        Get(keyword_counts, extracted_keywords[i], 0)])
      keywords_found_count == Cardinality({i \in 1..Len(counts) : counts[i] > 0})
  IN  Put(Put(Put(Put(r, "_matched_keywords_count", keywords_found_count),
                  "_matched_keywords_total", SumSeq(counts)),
              "_matched_keyword_counts", keyword_counts),
          "_has_all_keywords", keywords_found_count = Len(extracted_keywords))

\* words_percentage of sort_key, as a fraction
WordsPercentage(r) ==
  IF Get(r, "total_words", 0) > 0
  THEN <<100 * Get(r, "words_found", 0), Get(r, "total_words", 0)>>
  ELSE IF Get(r, "words_found", 0) = 0 THEN <<0, 1>> ELSE <<100, 1>>

\* key=sort_key, reverse=True
TitleBefore(x, y) ==
  \/ RatioGT(WordsPercentage(x), WordsPercentage(y))
  \/ /\ ~RatioGT(WordsPercentage(y), WordsPercentage(x))
     /\ TupleGT(<<BoolInt(Get(x, "_has_all_keywords", FALSE)),
                  Get(x, "_matched_keywords_total", 0)>>,
                <<BoolInt(Get(y, "_has_all_keywords", FALSE)),
                  Get(y, "_matched_keywords_total", 0)>>)

\* key=words_found, reverse=True
WordsFoundBefore(x, y) == Get(x, "words_found", 0) > Get(y, "words_found", 0)

\* the sort of the title branch by the keywords of the question
TitleSort(results, extracted_keywords, aliases_table) ==
  IF Truthy(extracted_keywords)
  THEN StableSort(List([i \in 1..Len(results) |->
                          WithKeywordCounts(results[i], extracted_keywords, aliases_table)]),
                  TitleBefore)
  ELSE StableSort(results, WordsFoundBefore)

\* results[:limit]
Truncate(results, limit) == Take(results, limit)

\* is_perfect: some result holds every word of the title
is_perfect(results) ==
  LET max_words_found == CHOOSE w \in {results[i].words_found : i \in 1..Len(results)} :
                            \A i \in 1..Len(results) : results[i].words_found <= w
  IN  results[1].total_words # 0 /\ max_words_found >= results[1].total_words

\* perfect_results
perfect_results(results) ==
  LET Perfect(r) == r.words_found >= results[1].total_words
  IN  Filter(results, Perfect)

\* the return of the title branch with a floor of three under the limit:
\* results[:max(max_results, 3)] where there is no perfect match
TitleReturnAtLeastThree(results, max_results) ==
  IF is_perfect(results)
  THEN IF max_results <= 0 THEN perfect_results(results)
       ELSE Truncate(perfect_results(results), max_results)
  ELSE Truncate(results, Max(max_results, 3))

\* the return of the title branch for a non-empty result list
TitleReturn(results, max_results) ==
  IF is_perfect(results)
  THEN IF max_results <= 0 THEN perfect_results(results)
       ELSE Truncate(perfect_results(results), max_results)
  ELSE Truncate(results, IF max_results > 0 THEN max_results ELSE 3)

\* the filter by the minimal score
MinScoreFilter(results, min_score) ==
  LET Kept(r) == r.score >= min_score
  IN  IF min_score > 0 THEN Filter(results, Kept) ELSE results

\* the end of the year-only branch without the cut to max_results
YearOnlyReturnUncut(results, max_results, min_score) ==
  MinScoreFilter(results, min_score)

\* the end of the year-only branch
YearOnlyReturn(results, max_results, min_score) ==
  Truncate(MinScoreFilter(results, min_score), max_results)

\* the end of the question-only branch
QuestionOnlyReturn(results, max_results) == Truncate(results, max_results)

\* the tie-break that follows the keyword and semantic ranking
TieBreak(results, question, extracted_keywords) ==
  _rank_ties_by_keyword_mentions(results,
                                 _tokenize_query_keywords(question, extracted_keywords))

\* ------------------------------------------------------------------------
\* Title matching by position: fuzzy_search_name
\* ------------------------------------------------------------------------

\* the place of the first word of words that equals word, 0 when none does
FirstIndex(word, words) ==
  IF \E j \in 1..Len(words) : words[j] = word
  THEN CHOOSE j \in 1..Len(words) :
         words[j] = word /\ \A k \in 1..(j - 1) : words[k] # word
  ELSE 0

\* query_words_levelN[i] if i < len(query_words_levelN) else query_word_l0
WordAtLevel(query_words_level, i, query_word_l0) ==
  IF i <= Len(query_words_level) THEN query_words_level[i] ELSE query_word_l0

\* the three rounds for a query word whose places of the first match at the
\* levels 0, 1, 2 are j0, j1, j2: round 2 runs only when level 1 changes the
\* query word, round 3 only when level 2 changes it again
RoundsOf(i, l0, l1, l2, j0, j1, j2) ==
  IF j0 > 0 THEN [found |-> 1, in_order |-> BoolInt(i = j0), penalty |-> 0]
  ELSE IF l1 # l0 /\ j1 > 0 THEN [found |-> 1, in_order |-> BoolInt(i = j1), penalty |-> 5]
  ELSE IF l2 # l1 /\ j2 > 0 THEN [found |-> 1, in_order |-> BoolInt(i = j2), penalty |-> 5]
  ELSE [found |-> 0, in_order |-> 0, penalty |-> 0]

\* the body of the loop over the query words for the word at place i
MatchWord(i, l0, l1, l2, name_words_level0, name_words_level1, name_words_level2) ==
  RoundsOf(i, l0, l1, l2, FirstIndex(l0, name_words_level0),
           FirstIndex(l1, name_words_level1), FirstIndex(l2, name_words_level2))

\* a score without the limits 0 and 100
UnclampedScore(base_score, order_bonus, first_word_bonus, total_penalty) ==
  base_score + order_bonus + first_word_bonus - total_penalty

\* score = max(0, min(100, base + order bonus + first word bonus - penalty))
ClampedScore(base_score, order_bonus, first_word_bonus, total_penalty) ==
  Max(0, Min(100, base_score + order_bonus + first_word_bonus - total_penalty))

\* the counts of the loop over the query words and the bonus of the first word
FuzzyCounts(query_words, query_words_level1, query_words_level2, name_words_level0, name_words_level1, name_words_level2) ==
  LET matched == [i \in 1..Len(query_words) |->
                    MatchWord(i, query_words[i],
                              WordAtLevel(query_words_level1, i, query_words[i]),
                              WordAtLevel(query_words_level2, i, query_words[i]),
                              name_words_level0, name_words_level1, name_words_level2)]
  IN  [words_found_count |-> SumSeq([i \in 1..Len(query_words) |-> matched[i].found]),
       words_in_order    |-> SumSeq([i \in 1..Len(query_words) |-> matched[i].in_order]),
       total_penalty     |-> SumSeq([i \in 1..Len(query_words) |-> matched[i].penalty]),
       first_word_bonus  |-> IF query_words[1] = name_words_level0[1] THEN 10 ELSE 0]

\* the counts of the maamar m for the expanded query
FuzzyCountsOf(m, maamar_name_expanded, table) ==
  FuzzyCounts(Split(normalize_text(maamar_name_expanded, 0)),
              Split(normalize_text(maamar_name_expanded, 1)),
              Split(normalize_text(maamar_name_expanded, 2)),
              Split(normalize_text(expand_abbreviations(m.name, table), 0)),
              Split(normalize_text(expand_abbreviations(m.name, table), 1)),
              Split(normalize_text(expand_abbreviations(m.name, table), 2)))

\* the score of counts for a query of total_words words
FuzzyScore(counts, total_words) ==
  ClampedScore(Percent(counts.words_found_count, total_words),
               (counts.words_in_order * 10) \div total_words,
               counts.first_word_bonus, counts.total_penalty)

\* the result of the maamar m with its counts
FuzzyCandidate(m, counts, total_words) ==
  [key |-> m.key, name |-> m.name, filename |-> m.filename, text |-> m.text,
   year |-> m.year, keywords_all |-> m.keywords_all, embedding |-> m.embedding,
   score |-> FuzzyScore(counts, total_words),
   fuzzy_score |-> FuzzyScore(counts, total_words),
   keyword_score |-> 0, semantic_score |-> 0,
   words_found |-> counts.words_found_count, total_words |-> total_words]

\* key=score, reverse=True
FuzzyBefore(x, y) == x.score > y.score

fuzzy_search_name(maamar_name, maamarim, table, top_n) ==
  LET maamar_name_expanded == expand_abbreviations(maamar_name, table)
      query_words == Split(normalize_text(maamar_name_expanded, 0))
      Named(m)    == /\ m.name # <<>>
                     /\ Split(normalize_text(expand_abbreviations(m.name, table), 0)) # <<>>
      named       == Filter(maamarim, Named)
      counts      == [i \in 1..Len(named) |->
                        FuzzyCountsOf(named[i], maamar_name_expanded, table)]
      Scored(i)   == /\ counts[i].words_found_count # 0
                     /\ FuzzyScore(counts[i], Len(query_words)) > 0
      kept        == Filter(List([i \in 1..Len(named) |-> i]), Scored)
      results     == List([k \in 1..Len(kept) |->
                             FuzzyCandidate(named[kept[k]], counts[kept[k]],
                                            Len(query_words))])
  IN  IF query_words = <<>> THEN <<>>
      ELSE Take(StableSort(results, FuzzyBefore), top_n)

\* ------------------------------------------------------------------------
\* The inputs of the model
\* ------------------------------------------------------------------------

\* "באתי לגני": every word is in the names of k1, k2 and k3
TitleFull == <<"b", "a", "t", "y", " ", "l", "g", "n", "y">>

\* "מאמר באתי לגני שבת": two of its three words are in the names of k1, k2
\* and k3, one is in the expanded name of k4
TitlePartial == <<"m", "a", "m", "r", " ", "b", "a", "t", "y", " ", "l", "g", "n", "y", " ", "s", "b", "t">>

\* "לגני באתי" in quotation marks: the words of a name in another order
TitleQuoted == <<"Q2", "l", "g", "n", "y", " ", "b", "a", "t", "y", "Q2">>

\* "באתי לגני תשי״ג": a title that carries its year
TitleWithYear == <<"b", "a", "t", "y", " ", "l", "g", "n", "y", " ", "t", "s", "y", "G2", "g">>

Titles == {<<>>, TitleFull, TitlePartial, TitleQuoted}

\* the years "תשי״א" and "תשי״ג"
Years == {None, <<"t", "s", "y", "G2", "a">>, <<"t", "s", "y", "G2", "g">>}

\* "מה זה": stop words only
QuestionStopWords == <<"m", "h", " ", "z", "h">>

\* "דוד שבת גאולה"
QuestionThree == <<"d", "v", "d", " ", "s", "b", "t", " ", "g", "a", "v", "l", "h">>

\* " ": a question of white space only
QuestionBlank == <<" ">>

Questions == {None, QuestionStopWords, QuestionThree}

\* the questions of a direct call of keyword_search
KeywordQuestions == {None, QuestionStopWords, QuestionThree, QuestionBlank}

\* the largest result limit of a query
MaxLimit == 3

Limits == -1..MaxLimit

\* the positive minimal score of a query
MinScore == 60

MinScores == {0, MinScore}

\* "דוד, שבת"
AnswerTwo == <<"d", "v", "d", ",", " ", "s", "b", "t">>

\* "דוד, שבת, גאולה"
AnswerThree == <<"d", "v", "d", ",", " ", "s", "b", "t", ",", " ", "g", "a", "v", "l", "h">>

\* what the chat completion may answer to a question: nothing (the request
\* fails), or the answer of the model at temperature 0, which is "אין" to
\* a question without a keyword and the three keywords to the other one
Completions(question) ==
  IF question # None /\ question \in {QuestionStopWords, QuestionBlank}
  THEN {None, EinWord}
  ELSE {None, AnswerThree}

\* what the embedding request may return for the question: nothing (the
\* request fails) or a vector
QuestionEmbeddings == {None, <<1, 0>>, <<-1, 0>>}

\* the keyword lists a caller of keyword_search may force: none, an empty
\* one, or "שבת"
ForcedKeywords == {None, <<>>, <<<<"s", "b", "t">>>>}

\* ------------------------------------------------------------------------
\* The state machine
\* ------------------------------------------------------------------------

VARIABLES
  maamarim,                  \* _MAAMARIM_CACHE: the loaded corpus
  ENABLE_SEMANTIC_SEARCH,    \* the flag read from the environment at import
  _EXTRACTED_KEYWORDS_CACHE, \* question -> extracted keyword list
  pc,                        \* position of the call in progress
  call,                      \* the entry point and its arguments (year, question
                             \* and forced_keywords are Optional)
  branch,                    \* the branch of search_maamar that was taken
  results,                   \* the local variable results
  extracted_keywords,        \* the local variable extracted_keywords (Optional)
  returned,                  \* the list returned (empty when there is none)
  raised,                    \* the exception that left the call, or None
  requested,                 \* whether the keyword extraction of the call in
                             \* progress requested the chat completion
  request,                   \* the request /search is handling (Optional)
  response,                  \* the response of /search to it (Optional)
  previous,                  \* the search before this one, when a search is
                             \* run twice (Optional)
  threads,                   \* the concurrent calls of
                             \* extract_keywords_from_question
  input,                     \* the text given to normalize_text
  norm_level,                \* the level given to normalize_text
  normalized,                \* what normalize_text returned (Optional)
  arguments,                 \* the arguments of a function that is called by
                             \* itself
  outcome                    \* what that function returned (Optional)

vars == <<maamarim, ENABLE_SEMANTIC_SEARCH, _EXTRACTED_KEYWORDS_CACHE, pc, call,
          branch, results, extracted_keywords, returned, raised, requested,
          request, response, previous, threads, input, norm_level, normalized,
          arguments, outcome>>

\* the state of the concurrent extractions, of the normalisation and of the
\* functions called by themselves, which a search leaves alone
apart == <<threads, input, norm_level, normalized, arguments, outcome>>

\* the number of concurrent calls of extract_keywords_from_question
NumThreads == 2

Threads == 1..NumThreads

\* a thread outside extract_keywords_from_question
IdleThread == [pc |-> "idle", question |-> <<>>, value |-> <<>>]

\* the variables of a search, which the other activities leave alone
sequential == <<maamarim, ENABLE_SEMANTIC_SEARCH, pc, call, branch, results,
                extracted_keywords, returned, raised, requested, request, response,
                previous>>

NoCall ==
  [entry |-> "none", maamar_name |-> <<>>, year |-> <<>>, question |-> <<>>,
   max_results |-> 0, min_score |-> 0, use_semantic |-> FALSE,
   require_ai_keywords |-> FALSE, forced_keywords |-> <<>>]

\* no function is called by itself
NoArguments == [function |-> "none"]

Init ==
  /\ maamarim \in {CorpusA, CorpusB}
  /\ ENABLE_SEMANTIC_SEARCH \in BOOLEAN
  /\ _EXTRACTED_KEYWORDS_CACHE = <<>>
  /\ pc = "idle"
  /\ call = NoCall
  /\ branch = "none"
  /\ results = <<>>
  /\ extracted_keywords = <<>>
  /\ returned = <<>>
  /\ raised = None
  /\ requested = FALSE
  /\ request = <<>>
  /\ response = <<>>
  /\ previous = <<>>
  /\ threads = [t \in Threads |-> IdleThread]
  /\ input = <<>>
  /\ norm_level = 0
  /\ normalized = <<>>
  /\ arguments = NoArguments
  /\ outcome = <<>>

\* the candidate of the record m among cands (the last one; Optional)
CandidateOf(m, cands) ==
  LET at == {i \in 1..Len(cands) : cands[i].key = m.key}
  IN  IF at = {} THEN <<>> ELSE <<cands[CHOOSE i \in at : \A j \in at : j <= i]>>

\* the record m as its candidate c leaves it: a candidate holds the very
\* lists keywords_all and embedding of its record, so what these lists hold
\* at the candidate is what they hold at the record
WrittenThrough(m, c) ==
  IF c = <<>> THEN m
  ELSE [m EXCEPT !.keywords_all = c[1].keywords_all, !.embedding = c[1].embedding]

\* the corpus as the candidates of a call leave it
Shared(corpus, cands) ==
  [i \in 1..Len(corpus) |-> WrittenThrough(corpus[i], CandidateOf(corpus[i], cands))] \o <<>>

\* the call returns value; res is the last value of the local results
Finish(res, value) ==
  /\ pc' = "done"
  /\ results' = res
  /\ returned' = value
  /\ raised' = None

\* the call is left by the exception err
Raise(err) ==
  /\ pc' = "done"
  /\ returned' = <<>>
  /\ raised' = err
  /\ UNCHANGED results

\* the end of the year-only and of the question-only branch for the
\* results as the tie-break leaves them
ReturnRanked(ranked) ==
  IF branch = "year_only"
  THEN Finish(MinScoreFilter(ranked, call.min_score),
              YearOnlyReturn(ranked, call.max_results, call.min_score))
  ELSE Finish(ranked, QuestionOnlyReturn(ranked, call.max_results))

\* the end of the year-only and of the question-only branch, from the
\* tie-break on
RankAndReturn(res, ek) == ReturnRanked(TieBreak(res, Value(call.question), ek))

\* the branch search_maamar takes for the processed parameters
BranchOf(p) ==
  IF p.has_year_only THEN "year_only"
  ELSE IF p.has_maamar_name THEN "title"
  ELSE "question_only"

\* the candidates the branch collects: the maamarim of the year, the
\* mareh-makom matches of the title, or every maamar with a score of 50
Candidates(p, question, max_results) ==
  IF p.has_year_only THEN YearOnlyCandidates(maamarim, p.year_normalized)
  ELSE IF p.has_maamar_name
  THEN TitleCandidates(p.maamar_name, p.year_normalized, maamarim, Abbreviations,
                       max_results)
  ELSE IF Truthy(question) THEN QuestionOnlyCandidates(maamarim)
  ELSE <<>>

\* search_maamar from the point where the candidates are collected
Collected(maamar_name, year, question, max_results, min_score, use_semantic, taken, candidates) ==
  /\ pc = "idle"
  /\ call' = [entry |-> "search_maamar", maamar_name |-> maamar_name,
              year |-> Optional(year), question |-> Optional(question),
              max_results |-> max_results, min_score |-> min_score,
              use_semantic |-> use_semantic,
              require_ai_keywords |-> FALSE, forced_keywords |-> <<>>]
  /\ branch' = taken
  /\ extracted_keywords' = <<>>
  /\ requested' = FALSE
  /\ maamarim' = Shared(maamarim, candidates)
  /\ UNCHANGED <<ENABLE_SEMANTIC_SEARCH, _EXTRACTED_KEYWORDS_CACHE,
                 response, previous, apart>>
  /\ IF Truthy(question) /\ candidates # <<>>
     THEN /\ pc' = "keywords"
          /\ results' = candidates
          /\ UNCHANGED <<returned, raised>>
     ELSE IF taken = "year_only"
     THEN Finish(MinScoreFilter(candidates, min_score),
                 YearOnlyReturn(candidates, max_results, min_score))
     ELSE IF taken = "title" /\ candidates # <<>>
     THEN Finish(candidates, TitleReturn(candidates, max_results))
     ELSE Finish(candidates, <<>>)

\* search_maamar from the point where the parameters are processed
Processed(maamar_name, year, question, max_results, min_score, use_semantic, p) ==
  Collected(maamar_name, year, question, max_results, min_score, use_semantic,
            BranchOf(p), Candidates(p, question, max_results))

\* search_maamar is called: the parameters are processed and the
\* candidates of the branch are collected.  The call returns here when it
\* has nothing to rank, and goes on to the keyword extraction otherwise.
SearchMaamar(maamar_name, year, question, max_results, min_score, use_semantic) ==
  Processed(maamar_name, year, question, max_results, min_score, use_semantic,
            Preprocess(maamar_name, year))

\* the title branch sorts by the keywords and returns
TitleSorted(ek, sorted) ==
  /\ extracted_keywords' = Optional(ek)
  /\ Finish(sorted, TitleReturn(sorted, call.max_results))

\* the year-only and the question-only branch after keyword_search: the
\* call goes on to the embedding request, or to the tie-break and the return
\* when semantic_search does not reach the request
KeywordsRanked(ks) ==
  IF ks.raised # None
  THEN /\ extracted_keywords' = <<>>
       /\ Raise(ks.raised)
  ELSE /\ extracted_keywords' = Optional(ks.extracted_keywords)
       /\ IF /\ call.use_semantic
             /\ ReachesEmbedding(Value(call.question), ks.candidates,
                                 ENABLE_SEMANTIC_SEARCH)
          THEN /\ pc' = "semantic"
               /\ results' = ks.candidates
               /\ UNCHANGED <<returned, raised>>
          ELSE RankAndReturn(ks.candidates, ks.extracted_keywords)

\* the call goes on with the result ext of the keyword extraction
Extracted(ext) ==
  /\ pc = "keywords"
  /\ _EXTRACTED_KEYWORDS_CACHE' = ext.cache
  /\ requested' = ext.requested
  /\ UNCHANGED <<ENABLE_SEMANTIC_SEARCH, call, branch, request,
                 response, previous, apart>>
  /\ IF branch = "title"
     THEN TitleSorted(ext.value, TitleSort(results, ext.value, KeywordAliases))
     ELSE KeywordsRanked(keyword_search(Value(call.question), results, FALSE, None,
                                        ext.value, KeywordAliases))
  /\ maamarim' = Shared(maamarim, results')

\* the keyword extraction answers without a look at the cache
ExtractKeywordsAnew(answer) ==
  Extracted(extract_keywords_unconditionally(Value(call.question),
                                             _EXTRACTED_KEYWORDS_CACHE, answer))

\* the keyword extraction answers (or the cache does) and the call goes on:
\* the title branch sorts and returns; the other branches rank by keywords
\* and go on to the embedding request, or to the tie-break and the return
ExtractKeywords(answer) ==
  Extracted(extract_keywords_from_question(Value(call.question),
                                           _EXTRACTED_KEYWORDS_CACHE, answer))

\* the embedding request answers: semantic_search blends and sorts, then
\* the tie-break, the filter and the cut follow and the call returns
EmbedQuestion(question_embedding) ==
  /\ pc = "semantic"
  /\ UNCHANGED <<ENABLE_SEMANTIC_SEARCH, _EXTRACTED_KEYWORDS_CACHE, call,
                 branch, extracted_keywords, requested, request, response,
                 previous, apart>>
  /\ RankAndReturn(semantic_search(Value(call.question), results,
                                   ENABLE_SEMANTIC_SEARCH, question_embedding),
                   Value(extracted_keywords))
  /\ maamarim' = Shared(maamarim, results')

\* the direct call of keyword_search ends with the result ks
KeywordSearchDone(candidates, ks) ==
  IF ks.raised # None
  THEN /\ extracted_keywords' = <<>>
       /\ results' = candidates
       /\ pc' = "done"
       /\ returned' = <<>>
       /\ raised' = ks.raised
  ELSE /\ extracted_keywords' = Optional(ks.extracted_keywords)
       /\ Finish(ks.candidates, ks.candidates)

\* the direct call of keyword_search with the result ext of the keyword
\* extraction
KeywordSearchExtracted(question, require_ai_keywords, forced_keywords, candidates, ext) ==
  /\ pc = "idle"
  /\ call' = [NoCall EXCEPT !.entry = "keyword_search",
                            !.question = Optional(question),
                            !.require_ai_keywords = require_ai_keywords,
                            !.forced_keywords = Optional(forced_keywords)]
  /\ branch' = "none"
  /\ _EXTRACTED_KEYWORDS_CACHE' = ext.cache
  /\ requested' = ext.requested
  /\ UNCHANGED <<ENABLE_SEMANTIC_SEARCH, request, response, previous, apart>>
  /\ KeywordSearchDone(candidates,
                       keyword_search(question, candidates, require_ai_keywords,
                                      forced_keywords, ext.value, KeywordAliases))
  /\ maamarim' = Shared(maamarim, results')

\* the direct call of keyword_search on the given candidates; the
\* extraction is requested only when the question and the candidates are
\* not empty and no keywords are forced
KeywordSearchOn(question, require_ai_keywords, forced_keywords, answer, candidates) ==
  KeywordSearchExtracted(
    question, require_ai_keywords, forced_keywords, candidates,
    IF Truthy(question) /\ candidates # <<>> /\ ~Truthy(forced_keywords)
    THEN extract_keywords_from_question(question, _EXTRACTED_KEYWORDS_CACHE, answer)
    ELSE [value |-> None, cache |-> _EXTRACTED_KEYWORDS_CACHE, requested |-> FALSE])

\* keyword_search is called by itself on the candidates of a general
\* question
KeywordSearch(question, require_ai_keywords, forced_keywords, answer) ==
  KeywordSearchOn(question, require_ai_keywords, forced_keywords, answer,
                  QuestionOnlyCandidates(maamarim))

\* search_maamar is called by a caller other than /search
DirectSearch(maamar_name, year, question, max_results, min_score, use_semantic) ==
  /\ UNCHANGED request
  /\ SearchMaamar(maamar_name, year, question, max_results, min_score, use_semantic)

\* the default of the parameter max_results of search_maamar
DEFAULT_MAX_RESULTS == 5

\* the default of the parameter top_n of /search
DEFAULT_TOP_N == 1

\* the values of top_n a request may carry (Optional)
TopNs == {<<>>} \cup {<<n>> : n \in 1..MaxLimit}

\* the names and questions a request may carry; one that is absent is ''
ApiNames == {<<>>, TitleFull, TitleWithYear}

ApiQuestions == {<<>>, QuestionThree, QuestionBlank}

\* /search rejects a request without a name and without a question
Rejected(top_n) ==
  /\ pc = "idle"
  /\ pc' = "done"
  /\ request' = <<[top_n |-> top_n]>>
  /\ response' = <<[status |-> 400, count |-> 0]>>
  /\ UNCHANGED <<maamarim, ENABLE_SEMANTIC_SEARCH, _EXTRACTED_KEYWORDS_CACHE, call,
                 branch, results, extracted_keywords, returned, raised, requested,
                 previous, apart>>

\* /search with the stripped name and question: the request is rejected,
\* or search_maamar is called with the name and the question only
Searched(name, question, top_n) ==
  IF ~Truthy(name) /\ ~Truthy(question) THEN Rejected(top_n)
  ELSE /\ request' = <<[top_n |-> top_n]>>
       /\ SearchMaamar(name, None, question, DEFAULT_MAX_RESULTS, 0, TRUE)

\* /search is requested: top_n is read (1 when absent), name and question
\* are stripped
SearchApi(name, question, top_n) ==
  Searched(Strip(name), Strip(question),
           IF top_n = <<>> THEN DEFAULT_TOP_N ELSE top_n[1])

\* /search answers with what search_maamar returned, or with the error
Respond ==
  /\ pc = "done"
  /\ request # <<>>
  /\ response = <<>>
  /\ response' = <<IF raised = None
                   THEN [status |-> 200, count |-> Len(returned)]
                   ELSE [status |-> 500, count |-> 0]>>
  /\ UNCHANGED <<maamarim, ENABLE_SEMANTIC_SEARCH, _EXTRACTED_KEYWORDS_CACHE, pc,
                 call, branch, results, extracted_keywords, returned, raised,
                 requested, request, previous, apart>>

\* the end of a call: the locals are gone
Returned ==
  /\ pc = "done"
  /\ request # <<>> => response # <<>>
  /\ pc' = "idle"
  /\ call' = NoCall
  /\ branch' = "none"
  /\ results' = <<>>
  /\ extracted_keywords' = <<>>
  /\ returned' = <<>>
  /\ raised' = None
  /\ requested' = FALSE
  /\ request' = <<>>
  /\ response' = <<>>
  /\ UNCHANGED <<maamarim, ENABLE_SEMANTIC_SEARCH, _EXTRACTED_KEYWORDS_CACHE, apart>>

\* the caller takes the result; the next call may start
Return ==
  /\ Returned
  /\ UNCHANGED previous

\* the largest number of cached questions with which a call is started (the
\* cache of the program grows with every new question)
MaxCached == 1

\* a call may start: none is in progress, and the cache is within its bound
CanCall ==
  /\ pc = "idle"
  /\ Cardinality(DOMAIN _EXTRACTED_KEYWORDS_CACHE) <= MaxCached

Next ==
  \/ /\ CanCall
     /\ \E maamar_name \in Titles, year \in Years, question \in Questions,
           max_results \in Limits, min_score \in MinScores, use_semantic \in BOOLEAN :
          DirectSearch(maamar_name, year, question, max_results, min_score, use_semantic)
  \/ /\ CanCall
     /\ \E name \in ApiNames, question \in ApiQuestions, top_n \in TopNs :
          SearchApi(name, question, top_n)
  \/ Respond
  \/ /\ pc = "keywords"
     /\ \E answer \in Completions(Value(call.question)) : ExtractKeywords(answer)
  \/ /\ pc = "semantic"
     /\ \E question_embedding \in QuestionEmbeddings : EmbedQuestion(question_embedding)
  \/ /\ CanCall
     /\ \E question \in KeywordQuestions, require_ai_keywords \in BOOLEAN,
           forced_keywords \in ForcedKeywords :
          \E answer \in Completions(question) :
             KeywordSearch(question, require_ai_keywords, forced_keywords, answer)
  \/ Return

Spec == Init /\ [][Next]_vars

\* ------------------------------------------------------------------------
\* Properties of search_maamar and keyword_search
\* ------------------------------------------------------------------------

\* search_maamar has returned a list
SearchReturned == pc = "done" /\ call.entry = "search_maamar" /\ raised = None

\* the keys of a list of candidates
Keys(lst) == {lst[i].key : i \in 1..Len(lst)}

\* the parameters of the call in progress as search_maamar processes them
Processed_call == Preprocess(call.maamar_name, Value(call.year))

\* the candidates of the title branch that hold every word of the title
\* (and are of the year asked for), found without the cut to top_n
PerfectRecords ==
  LET every == TitleCandidates(Processed_call.maamar_name,
                               Processed_call.year_normalized, maamarim,
                               Abbreviations, 0)
  IN  IF every = <<>> \/ ~is_perfect(every) THEN <<>> ELSE perfect_results(every)

\* C1: at every stage of every branch the score of every candidate is a
\* whole number from 0 to 100; in particular the semantic blend leaves no
\* score below 0 or above 100.
C1_ScoreInRange ==
  /\ \A i \in 1..Len(results) : results[i].score \in 0..100
  /\ \A i \in 1..Len(returned) : returned[i].score \in 0..100

\* C2: with min_score > 0 every result search_maamar returns has
\* score >= min_score, in every branch (the part of the claim about the
\* filter; with min_score = 0 there is no filter to state).
C2_MinScoreHolds ==
  (SearchReturned /\ call.min_score > 0) =>
    \A i \in 1..Len(returned) : returned[i].score >= call.min_score

\* C3: for a title in quotation marks the results are those of
\* exact_search_name for the title without the quotes: every result has
\* score 100 and is a result of the exact title search.
C3_QuotedIsExact ==
  (SearchReturned /\ branch = "title" /\ Processed_call.exact_match_only) =>
    /\ \A i \in 1..Len(returned) : returned[i].score = 100
    /\ Keys(returned) \subseteq
         Keys(exact_search_name(Processed_call.maamar_name, maamarim, 1000))

\* C4: in the title branch, when some record holds every word of the title
\* (and is of the year asked for), the result is not empty, and every such
\* record is in it when they are no more than the limit (or there is no
\* limit).
C4_PerfectReturned ==
  (SearchReturned /\ branch = "title" /\ PerfectRecords # <<>>) =>
    /\ returned # <<>>
    /\ (call.max_results <= 0 \/ Len(PerfectRecords) <= call.max_results)
         => Keys(PerfectRecords) \subseteq Keys(returned)

\* the title branch has returned from a ranked list without a perfect match
NonPerfectReturned ==
  SearchReturned /\ branch = "title" /\ results # <<>> /\ ~is_perfect(results)

C6_NoLimitNoCut ==
  (SearchReturned /\ call.max_results <= 0) =>
    /\ branch = "year_only" => returned = results
    /\ (branch = "title" /\ results # <<>> /\ is_perfect(results))
         => returned = perfect_results(results)

\* the question-only branch stands right after the keyword reranking: at
\* the embedding request, or at the return when there is no semantic blend
AfterKeywordRerank ==
  /\ branch = "question_only"
  /\ \/ pc = "semantic"
     \/ SearchReturned /\ ~(call.use_semantic /\ ENABLE_SEMANTIC_SEARCH)

\* C7: in the question-only branch the score of every candidate after the
\* keyword reranking is its keyword_score, also when no keyword was found
\* (0, not 50), so that no candidate without a keyword stands before one
\* with a keyword.
C7_ScoreIsKeywordScore ==
  AfterKeywordRerank =>
    /\ \A i \in 1..Len(results) : results[i].score = results[i].keyword_score
    /\ \A i, j \in 1..Len(results) :
         (i < j /\ results[j].keyword_score > 0) => results[i].keyword_score > 0

\* C8: for a positive limit the list returned has at most limit members in
\* the year-only and the question-only branch and in the perfect-match case
\* of the title branch, and no key is in it twice.
C8_AtMostLimit ==
  (SearchReturned /\ call.max_results > 0) =>
    /\ Cardinality(Keys(returned)) = Len(returned)
    /\ (\/ branch \in {"year_only", "question_only"}
        \/ branch = "title" /\ results # <<>> /\ is_perfect(results))
         => Len(returned) <= call.max_results

\* C8: a limit of 1 has cut the list of the year-only branch, and another
\* one the perfect matches of the title branch, to one result
C8_Witness ==
  /\ SearchReturned /\ call.max_results = 1 /\ Len(returned) = 1
  /\ \/ branch = "year_only" /\ Len(results) >= 2
     \/ branch = "title" /\ Len(perfect_results(results)) >= 2

\* C9: the list search_maamar returns is in the order of non-increasing
\* score in every branch.
C9_SortedByScore ==
  SearchReturned =>
    \A i \in 1..(Len(returned) - 1) : returned[i].score >= returned[i + 1].score

\* keyword_search was called by itself and has asked for the keywords of
\* the question
DirectCallExtracted ==
  /\ pc = "done" /\ call.entry = "keyword_search"
  /\ Truthy(Value(call.question)) /\ ~Truthy(Value(call.forced_keywords))

\* the extraction for the question of the call succeeded: a successful
\* extraction is in the keyword cache, a failed one is not
ExtractionSucceeded ==
  Strip(Value(call.question)) \in DOMAIN _EXTRACTED_KEYWORDS_CACHE

\* C10: keyword_search in strict mode raises exactly when the extraction
\* failed, not when it succeeded with an empty list; in lenient mode a
\* failed extraction does not raise.
C10_StrictRaisesIffFailed ==
  DirectCallExtracted =>
    /\ call.require_ai_keywords => (raised # None <=> ~ExtractionSucceeded)
    /\ (~call.require_ai_keywords /\ ~ExtractionSucceeded) => raised = None

\* ------------------------------------------------------------------------
\* The keyword cache over the calls
\* ------------------------------------------------------------------------

\* the step in which extract_keywords_from_question runs: within
\* search_maamar, or within keyword_search called by itself
ExtractionStep ==
  \/ pc = "keywords" /\ pc' # "keywords"
  \/ /\ pc = "idle" /\ call'.entry = "keyword_search"
     /\ Truthy(Value(call'.question)) /\ ~Truthy(Value(call'.forced_keywords))
     /\ QuestionOnlyCandidates(maamarim) # <<>>

\* the question of that step
ExtractedQuestion ==
  IF pc = "keywords" THEN Value(call.question) ELSE Value(call'.question)

\* whatever the service answers, the extraction for the question returns
\* the list that the cache holds for it
ReturnsCached ==
  \A answer \in Completions(ExtractedQuestion) :
    extract_keywords_from_question(ExtractedQuestion, _EXTRACTED_KEYWORDS_CACHE,
                                   answer).value
      = _EXTRACTED_KEYWORDS_CACHE[KeyOf(ExtractedQuestion)]

\* the entries of the cache stay as they are
EntriesKept ==
  \A k \in DOMAIN _EXTRACTED_KEYWORDS_CACHE :
    /\ k \in DOMAIN _EXTRACTED_KEYWORDS_CACHE'
    /\ _EXTRACTED_KEYWORDS_CACHE'[k] = _EXTRACTED_KEYWORDS_CACHE[k]

\* an extraction for a question that the cache holds returns the cached
\* list without a request; one for a question that it does not hold goes to
\* the service, and stores nothing when the service fails
CacheServes(held) ==
  /\ (ExtractionStep /\ held) =>
       /\ ~requested'
       /\ ReturnsCached
       /\ _EXTRACTED_KEYWORDS_CACHE' = _EXTRACTED_KEYWORDS_CACHE
  /\ (ExtractionStep /\ KeyOf(ExtractedQuestion) \notin DOMAIN _EXTRACTED_KEYWORDS_CACHE) =>
       /\ requested'
       /\ extract_keywords_from_question(ExtractedQuestion, _EXTRACTED_KEYWORDS_CACHE,
                                         None).cache = _EXTRACTED_KEYWORDS_CACHE
  /\ EntriesKept

RecordOf(c) ==
  maamarim[CHOOSE i \in 1..Len(maamarim) : maamarim[i].key = c.key]

\* the candidate holds the keyword list and the embedding of its record
HoldsOfRecord(c) ==
  /\ c.keywords_all = RecordOf(c).keywords_all
  /\ c.embedding = RecordOf(c).embedding

\* C13: no step of a call changes a record of the corpus (name, year, text,
\* keywords_all, embedding): the candidates are updated, and the lists that
\* a candidate shares with its record stay as the record has them.  The
\* alias and the abbreviation table are read only (KeywordAliases,
\* Abbreviations).
C13_RecordsUnchanged ==
  [][/\ maamarim' = maamarim
     /\ \A i \in 1..Len(results') : HoldsOfRecord(results'[i])]_vars

\* C13: a call has returned candidates that keyword_search has updated
C13_Witness ==
  /\ pc = "done" /\ call.entry = "search_maamar" /\ raised = None
  /\ \E i \in 1..Len(returned) :
       /\ "matched_keywords" \in DOMAIN returned[i]
       /\ returned[i].score # 50
       /\ HoldsOfRecord(returned[i])

\* ------------------------------------------------------------------------
\* The matched keywords
\* ------------------------------------------------------------------------

\* keyword_search has run in the call and has returned its keyword list
AfterKeywordSearch ==
  /\ pc \in {"semantic", "done"} /\ raised = None
  /\ branch # "title"
  /\ extracted_keywords # <<>>

\* C14: after keyword_search the matched_keywords of every candidate are
\* among the keywords used for the query: the extracted keywords, or the
\* words of the question in the fall-back mode.
C14_MatchedOfQuery ==
  AfterKeywordSearch =>
    \A i \in 1..Len(results) :
      "matched_keywords" \in DOMAIN results[i] =>
        ToSet(results[i].matched_keywords) \subseteq ToSet(Value(extracted_keywords))

\* ------------------------------------------------------------------------
\* The year filter of the title branch
\* ------------------------------------------------------------------------

\* the year of the record m: its year field, or the year found in its name
\* when the field is empty (None when there is none)
DeterminableYear(m) ==
  IF Truthy(m.year) THEN m.year ELSE YearMatch(m.name)

\* the record m is of the year, both normalised
OfYear(m, year_normalized) ==
  /\ DeterminableYear(m) # None
  /\ NormalizeYear(DeterminableYear(m)) = year_normalized

C17_AtMostTopN ==
  (request # <<>> /\ response # <<>> /\ response[1].status = 200) =>
    response[1].count <= request[1].top_n

\* ------------------------------------------------------------------------
\* Two runs of one query
\* ------------------------------------------------------------------------

\* the first run of a search by year or by question
FirstSearch(year, question, max_results, min_score, use_semantic) ==
  /\ previous = <<>>
  /\ DirectSearch(<<>>, year, question, max_results, min_score, use_semantic)

\* the caller keeps the outcome of the first run; cached tells whether the
\* cache holds the keywords of the question
Remember ==
  /\ previous = <<>>
  /\ Returned
  /\ previous' = <<[call |-> call, returned |-> returned, raised |-> raised,
                   cached |-> /\ Truthy(Value(call.question))
                              /\ KeyOf(Value(call.question))
                                   \in DOMAIN _EXTRACTED_KEYWORDS_CACHE]>>

\* the second run, with the arguments of the first
SecondSearch ==
  /\ previous # <<>>
  /\ DirectSearch(<<>>, Value(previous[1].call.year), Value(previous[1].call.question),
                  previous[1].call.max_results, previous[1].call.min_score,
                  previous[1].call.use_semantic)

\* the caller takes the outcome of the second run
Compare ==
  /\ previous # <<>>
  /\ Returned
  /\ previous' = <<>>

RepeatNext ==
  \/ /\ pc = "idle" /\ previous = <<>>
     /\ \E year \in Years, question \in Questions, max_results \in Limits,
           min_score \in MinScores, use_semantic \in BOOLEAN :
          FirstSearch(year, question, max_results, min_score, use_semantic)
  \/ Remember
  \/ SecondSearch
  \/ Compare
  \/ /\ pc = "keywords"
     /\ \E answer \in Completions(Value(call.question)) : ExtractKeywords(answer)
  \/ /\ pc = "semantic"
     /\ \E question_embedding \in QuestionEmbeddings : EmbedQuestion(question_embedding)

RepeatSpec == Init /\ [][RepeatNext]_vars

\* the second run of a search by year or by question has ended, and both
\* runs have ranked by the keyword list that the cache holds for the question
SecondRunEnded ==
  /\ pc = "done" /\ previous # <<>>
  /\ branch \in {"year_only", "question_only"}
  /\ previous[1].cached

\* the outcome of the second run is the outcome of the first
SameOutcome ==
  /\ raised = previous[1].raised
  /\ returned = previous[1].returned

\* the embedding service is not asked in the call
NoEmbedding == ~(call.use_semantic /\ ENABLE_SEMANTIC_SEARCH)

ThreadQuestions == {QuestionStopWords, QuestionThree}

\* what the chat completion may answer to a concurrent request
ThreadCompletions == {None, EinWord, AnswerTwo, AnswerThree}

\* the thread t calls extract_keywords_from_question(question)
Call(t, question) ==
  /\ threads[t].pc = "idle"
  /\ threads' = [threads EXCEPT ![t] = [pc |-> "lookup", question |-> <<question>>,
                                        value |-> <<>>]]
  /\ UNCHANGED <<_EXTRACTED_KEYWORDS_CACHE, sequential, input, norm_level, normalized, arguments, outcome>>

\* the thread t looks the question up (lines 517-519): it returns the
\* cached list, or goes on to the request
Lookup(t) ==
  /\ threads[t].pc = "lookup"
  /\ threads' = [threads EXCEPT ![t] =
       IF CacheHit(threads[t].question[1], _EXTRACTED_KEYWORDS_CACHE)
       THEN [@ EXCEPT !.pc = "return",
                      !.value = <<_EXTRACTED_KEYWORDS_CACHE[KeyOf(threads[t].question[1])]>>]
       ELSE [@ EXCEPT !.pc = "request"]]
  /\ UNCHANGED <<_EXTRACTED_KEYWORDS_CACHE, sequential, input, norm_level, normalized, arguments, outcome>>

\* the thread t goes on with the outcome e of its request
Answered(t, e) ==
  /\ _EXTRACTED_KEYWORDS_CACHE' = e.cache
  /\ threads' = [threads EXCEPT ![t] = [pc |-> "return",
                                        question |-> threads[t].question,
                                        value |-> Optional(e.value)]]

\* the service answers the request of the thread t (lines 569-658): the
\* answer is parsed and stored in the cache as it is by now
Answer(t, answer) ==
  /\ threads[t].pc = "request"
  /\ Answered(t, RequestKeywords(threads[t].question[1], _EXTRACTED_KEYWORDS_CACHE,
                                 answer))
  /\ UNCHANGED <<sequential, input, norm_level, normalized, arguments, outcome>>

\* the call of the thread t returns
ThreadReturn(t) ==
  /\ threads[t].pc = "return"
  /\ threads' = [threads EXCEPT ![t] = IdleThread]
  /\ UNCHANGED <<_EXTRACTED_KEYWORDS_CACHE, sequential, input, norm_level, normalized, arguments, outcome>>

ConcurrentNext ==
  \E t \in Threads :
    \/ \E question \in ThreadQuestions : Call(t, question)
    \/ Lookup(t)
    \/ \E answer \in ThreadCompletions : Answer(t, answer)
    \/ ThreadReturn(t)

ConcurrentSpec == Init /\ [][ConcurrentNext]_vars

\* C12: once the cache holds an entry for a question, no step replaces it
\* by a different list, whatever the concurrent requests for the question
\* are answered.
C12_EntryNeverReplaced == [][EntriesKept]_vars

\* ------------------------------------------------------------------------
\* normalize_text on arbitrary short texts
\* ------------------------------------------------------------------------

\* the longest text that is normalised
MaxTextLen == 4

\* the seven quote glyphs of a text: geresh, gershayim, apostrophe, double
\* quote, backtick, prime, double prime
QuoteVariants == {"G1", "G2", "Q1", "Q2", "BT", "P1", "P2"}

\* the characters of the texts: a letter that no level elides, the three
\* letters that the levels elide, a punctuation mark and the quote glyphs
TextChars == {"b", "v", "y", "h", ","} \cup QuoteVariants

\* the texts of a length up to MaxTextLen
Texts == UNION {[1..n -> TextChars] : n \in 0..MaxTextLen}

\* the levels of normalize_text
Levels == 0..3

NormalizeInit ==
  /\ input \in Texts
  /\ norm_level = 0
  /\ normalized = <<>>
  /\ maamarim = CorpusA
  /\ ENABLE_SEMANTIC_SEARCH = FALSE
  /\ _EXTRACTED_KEYWORDS_CACHE = <<>>
  /\ pc = "idle"
  /\ call = NoCall
  /\ branch = "none"
  /\ results = <<>>
  /\ extracted_keywords = <<>>
  /\ returned = <<>>
  /\ raised = None
  /\ requested = FALSE
  /\ request = <<>>
  /\ response = <<>>
  /\ previous = <<>>
  /\ threads = [t \in Threads |-> IdleThread]
  /\ arguments = NoArguments
  /\ outcome = <<>>

\* normalize_text(input, level) is called
Normalize(level) ==
  /\ normalized = <<>>
  /\ norm_level' = level
  /\ normalized' = <<normalize_text(input, level)>>
  /\ UNCHANGED <<input, threads, _EXTRACTED_KEYWORDS_CACHE, sequential, arguments, outcome>>

\* normalize_text is called on its own result, at the same level
NormalizeAgain ==
  /\ Len(normalized) = 1
  /\ normalized' = Append(normalized, normalize_text(normalized[1], norm_level))
  /\ UNCHANGED <<input, norm_level, threads, _EXTRACTED_KEYWORDS_CACHE, sequential,
                 arguments, outcome>>

NormalizeNext ==
  \/ \E level \in Levels : Normalize(level)
  \/ NormalizeAgain

NormalizeSpec == NormalizeInit /\ [][NormalizeNext]_vars

\* C18: normalize_text is idempotent at every level: the normalisation of a
\* normalised text, at the same level, is that text.
C18_Idempotent ==
  Len(normalized) = 2 => normalized[2] = normalized[1]

\* C19: the levels add up: the text normalised at the level L + 1 is the
\* text normalised at the level L with the letter of the level L + 1 elided.
C19_LevelsAdd ==
  (Len(normalized) >= 1 /\ norm_level < 3) =>
    normalize_text(input, norm_level + 1)
      = ElideInternal(normalized[1], ElidedAt(norm_level + 1))

\* C19: a text in which the level and the next level each elide a letter
\* has been normalised
C19_Witness ==
  /\ Len(normalized) >= 1 /\ norm_level \in 1..2
  /\ normalized[1] # normalize_text(input, norm_level - 1)
  /\ normalize_text(input, norm_level + 1) # normalized[1]

\* the text x with the gershayim at every quote position
Canonical(x) ==
  List([i \in 1..Len(x) |-> IF x[i] \in QuoteVariants THEN "G2" ELSE x[i]])

\* C20: at the level 0, a text and the text that differs from it in the
\* quote glyphs only (here the one with the gershayim at every quote
\* position) are normalised to the same text.
C20_QuoteVariantsAlike ==
  (Len(normalized) >= 1 /\ norm_level = 0) =>
    normalized[1] = normalize_text(Canonical(input), 0)

\* C20: a text with two different quote glyphs, neither the gershayim, and
\* a letter has been normalised at the level 0
C20_Witness ==
  /\ Len(normalized) >= 1 /\ norm_level = 0
  /\ \E i, j \in 1..Len(input) :
       /\ input[i] \in QuoteVariants \ {"G2"}
       /\ input[j] \in QuoteVariants \ {"G2", input[i]}
  /\ normalized[1] # <<>>

\* ------------------------------------------------------------------------
\* The score of the mareh-makom matches
\* ------------------------------------------------------------------------

\* round(num / den * 100) for 0 <= num and 0 < den: the nearest integer
\* (no such quotient of the model lies halfway between two integers but 50)
RoundPercent(num, den) == (num * 200 + den) \div (2 * den)

\* search_maamar has returned the results of its title branch
TitleReturned == SearchReturned /\ branch = "title"

\* C21: the score of every returned candidate of the mareh-makom mode is
\* round(wordsFound / totalWords * 100), the nearest integer (67 for 2 of
\* 3 words), and 1 <= wordsFound <= totalWords
C21_ScoreRounded ==
  TitleReturned =>
    \A i \in 1..Len(returned) :
      /\ 1 <= returned[i].words_found
      /\ returned[i].words_found <= returned[i].total_words
      /\ returned[i].score = RoundPercent(returned[i].words_found,
                                          returned[i].total_words)

\* ------------------------------------------------------------------------
\* The ranking of the title branch
\* ------------------------------------------------------------------------

\* the matches of the title of the call in progress as the title branch
\* collects them, before the question is looked at
TitleMatches ==
  TitleCandidates(Processed_call.maamar_name, Processed_call.year_normalized,
                  maamarim, Abbreviations, call.max_results)

\* what the title branch returns for these matches when there is no question
ReturnedWithoutQuestion(matches) ==
  IF matches = <<>> THEN <<>> ELSE TitleReturn(matches, call.max_results)

\* the candidates earlier in lst have at least the words_found of the later
WordsFoundDescending(lst) ==
  \A i, j \in 1..Len(lst) : i < j => lst[i].words_found >= lst[j].words_found

\* lst holds the candidates of base, each place with the words_found it has
\* in base and each candidate with the score it has in base
ReorderedWithinWordsFound(lst, base) ==
  /\ Len(lst) = Len(base)
  /\ Keys(lst) = Keys(base)
  /\ \A i \in 1..Len(lst) : lst[i].words_found = base[i].words_found
  /\ \A i, j \in 1..Len(lst) : lst[i].key = base[j].key => lst[i].score = base[j].score

\* the sorted list and the returned list of the title branch against the
\* matches and against base, the list returned for them without a question
RankedAgainst(matches, base) ==
  /\ WordsFoundDescending(returned)
  /\ WordsFoundDescending(results)
  /\ ReorderedWithinWordsFound(results, matches)
  /\ Len(returned) = Len(base)
  /\ \A i \in 1..Len(returned) :
       /\ returned[i].words_found = base[i].words_found
       /\ \A j \in 1..Len(matches) :
            returned[i].key = matches[j].key => returned[i].score = matches[j].score

RankedByWordsFound(matches) == RankedAgainst(matches, ReturnedWithoutQuestion(matches))

\* C22: in the title branch, with or without a question, an earlier result
\* has at least the words_found of a later one; the keywords of the question
\* only reorder results of the same words_found (the sorted list and the
\* returned list have at each place the words_found they have without a
\* question) and change no score
C22_WordsFoundFirst ==
  TitleReturned => RankedByWordsFound(TitleMatches)

\* the keywords moved a result of the sorted list and one of the returned
\* list away from the place it has in matches and in base
MovedFrom(matches, base) ==
  /\ \E i \in 1..Len(results) : results[i].key # matches[i].key
  /\ \E i \in 1..Len(returned) : returned[i].key # base[i].key

MovedByKeywords(matches) == MovedFrom(matches, ReturnedWithoutQuestion(matches))

\* a title search with a question has ranked results of two different
\* words_found by keywords that moved a result forward within its group
C22_Witness ==
  /\ TitleReturned
  /\ Truthy(Value(extracted_keywords))
  /\ \E i, j \in 1..Len(results) : results[i].words_found > results[j].words_found
  /\ MovedByKeywords(TitleMatches)

\* ------------------------------------------------------------------------
\* Functions called by themselves: each of the specifications below draws
\* the arguments of one function from a bounded set and applies the function
\* ------------------------------------------------------------------------

\* no search, no concurrent extraction and no normalisation is under way
AtRest ==
  /\ _EXTRACTED_KEYWORDS_CACHE = <<>>
  /\ pc = "idle"
  /\ call = NoCall
  /\ branch = "none"
  /\ results = <<>>
  /\ extracted_keywords = <<>>
  /\ returned = <<>>
  /\ raised = None
  /\ requested = FALSE
  /\ request = <<>>
  /\ response = <<>>
  /\ previous = <<>>
  /\ threads = [t \in Threads |-> IdleThread]
  /\ input = <<>>
  /\ norm_level = 0
  /\ normalized = <<>>

\* what the call of a function by itself leaves alone
beside == <<sequential, _EXTRACTED_KEYWORDS_CACHE, threads, input, norm_level,
            normalized, arguments>>

\* ------------------------------------------------------------------------
\* fuzzy_search_name
\* ------------------------------------------------------------------------

\* a maamar record that has a key and a name only
NamedRecord(key, name) ==
  [key |-> key, filename |-> key, name |-> name, year |-> <<>>, text |-> <<>>,
   keywords_all |-> <<>>, embedding |-> <<>>]

\* "ויאמר לו יהונתן", "שין דלת", "דוד המלך", "בית שוין"
FuzzyRecords ==
  {NamedRecord("n1", <<"v", "y", "a", "m", "r", " ", "l", "v", " ", "y", "h", "v", "n", "t", "N">>),
   NamedRecord("n2", <<"s", "y", "N", " ", "d", "l", "t">>),
   NamedRecord("n3", <<"d", "v", "d", " ", "h", "m", "l", "K">>),
   NamedRecord("n4", <<"b", "y", "t", " ", "s", "v", "y", "N">>)}

\* the corpora of one record and of two records
FuzzyCorpora ==
  {<<r>> : r \in FuzzyRecords}
    \cup {<<p[1], p[2]>> : p \in {q \in FuzzyRecords \X FuzzyRecords : q[1] # q[2]}}

\* the titles asked for: "", "ויאמר לו יהונתן", "ויאמר יהונתן", "יהונתן
\* ויאמר", "ויאמר משה", "שוין", "שוין משה", "שין", "דד", "בת", "דוד בת"
FuzzyQueries ==
  {<<>>,
   <<"v", "y", "a", "m", "r", " ", "l", "v", " ", "y", "h", "v", "n", "t", "N">>,
   <<"v", "y", "a", "m", "r", " ", "y", "h", "v", "n", "t", "N">>,
   <<"y", "h", "v", "n", "t", "N", " ", "v", "y", "a", "m", "r">>,
   <<"v", "y", "a", "m", "r", " ", "m", "s", "h">>,
   <<"s", "v", "y", "N">>,
   <<"s", "v", "y", "N", " ", "m", "s", "h">>,
   <<"s", "y", "N">>,
   <<"d", "d">>,
   <<"b", "t">>,
   <<"d", "v", "d", " ", "b", "t">>}

\* the values of top_n: one result, or the default of ten
FuzzyTopNs == {1, 10}

FuzzyInit ==
  /\ AtRest
  /\ maamarim \in FuzzyCorpora
  /\ ENABLE_SEMANTIC_SEARCH = FALSE
  /\ arguments \in [function : {"fuzzy_search_name"}, maamar_name : FuzzyQueries,
                    top_n : FuzzyTopNs]
  /\ outcome = <<>>

\* fuzzy_search_name(maamar_name, maamarim, top_n) is called
FuzzySearch ==
  /\ arguments.function = "fuzzy_search_name"
  /\ outcome = <<>>
  /\ outcome' = <<fuzzy_search_name(arguments.maamar_name, maamarim, Abbreviations,
                                    arguments.top_n)>>
  /\ UNCHANGED beside

FuzzyNext == FuzzySearch

FuzzySpec == FuzzyInit /\ [][FuzzyNext]_vars

\* fuzzy_search_name has returned
FuzzyReturned == arguments.function = "fuzzy_search_name" /\ outcome # <<>>

AboveHundred(m, counts, total_words) ==
  UnclampedScore(Percent(counts.words_found_count, total_words),
                 (counts.words_in_order * 10) \div total_words,
                 counts.first_word_bonus, counts.total_penalty) > 100

NameWordsAt(m, level) ==
  ToSet(Split(normalize_text(expand_abbreviations(m.name, Abbreviations), level)))

\* the query word has a match in the name of m: at level 0, or its level-1
\* form is the level-1 form of a name word, or its level-2 form is the
\* level-2 form of one
MatchesAtSomeLevel(word, m) ==
  \E level \in 0..2 : normalize_text(word, level) \in NameWordsAt(m, level)

\* the number of the query words that have a match in the name of m
WordsMatching(query_words, m) ==
  Cardinality({i \in 1..Len(query_words) : MatchesAtSomeLevel(query_words[i], m)})

\* the words of the title asked for, at level 0
FuzzyQueryWords ==
  Split(normalize_text(expand_abbreviations(arguments.maamar_name, Abbreviations), 0))

\* C24: in the positional fuzzy mode a query word without a level-0 match is
\* counted as found when its level-1 form equals the level-1 form of a name
\* word, and otherwise when the level-2 forms are equal, also when only the
\* name word holds the elided vav or yod: every maamar with such a word is
\* returned (top_n allowing) with all these words counted in words_found
C24_FoundByNormalizedForm ==
  (FuzzyReturned /\ arguments.top_n >= Len(maamarim)) =>
    \A j \in 1..Len(maamarim) :
      WordsMatching(FuzzyQueryWords, maamarim[j]) > 0 =>
        \E i \in 1..Len(outcome[1]) :
          /\ outcome[1][i].key = maamarim[j].key
          /\ outcome[1][i].words_found = WordsMatching(FuzzyQueryWords, maamarim[j])

\* ------------------------------------------------------------------------
\* semantic_search
\* ------------------------------------------------------------------------

\* the members of s at the places of I, in their order
Restrict(s, I) ==
  LET F[i \in 0..Len(s)] ==
        IF i = 0 THEN <<>>
        ELSE IF i \in I THEN Append(F[i - 1], s[i]) ELSE F[i - 1]
  IN  F[Len(s)]

\* the candidate lists given to semantic_search: the candidates of a general
\* question for some of the records of a corpus (k2 has no embedding, k4
\* has one of another dimension in CorpusB)
SemanticCandidates ==
  {QuestionOnlyCandidates(Restrict(corpus, I)) :
     corpus \in {CorpusA, CorpusB}, I \in SUBSET (1..4)}

\* the questions given to semantic_search
SemanticQuestions == {<<>>, QuestionThree}

SemanticInit ==
  /\ AtRest
  /\ maamarim = CorpusA
  /\ ENABLE_SEMANTIC_SEARCH \in BOOLEAN
  /\ arguments \in [function : {"semantic_search"}, question : SemanticQuestions,
                    candidates : SemanticCandidates, question_embedding : {<<>>}]
  /\ outcome = <<>>

\* semantic_search(question, candidates) is called and the embedding request,
\* when there is one, answers with question_embedding or fails; the answer
\* is kept beside the arguments (Optional)
SemanticSearch(question_embedding) ==
  /\ arguments.function = "semantic_search"
  /\ outcome = <<>>
  /\ outcome' = <<semantic_search(arguments.question, arguments.candidates,
                                  ENABLE_SEMANTIC_SEARCH, question_embedding)>>
  /\ arguments' = [arguments EXCEPT !.question_embedding = Optional(question_embedding)]
  /\ UNCHANGED <<sequential, _EXTRACTED_KEYWORDS_CACHE, threads, input, norm_level,
                 normalized>>

SemanticNext == \E question_embedding \in QuestionEmbeddings : SemanticSearch(question_embedding)

SemanticSpec == SemanticInit /\ [][SemanticNext]_vars

\* semantic_search has returned
SemanticReturned == arguments.function = "semantic_search" /\ outcome # <<>>

\* the blending ran: the embedding request was reached and answered, and
\* the similarity of no candidate raised
BlendingRan ==
  /\ ReachesEmbedding(arguments.question, arguments.candidates, ENABLE_SEMANTIC_SEARCH)
  /\ arguments.question_embedding # <<>>
  /\ \A i \in 1..Len(arguments.candidates) :
       HasEmbedding(arguments.candidates[i]) =>
         ~DotRaises(arguments.question_embedding[1], arguments.candidates[i].embedding)

\* the candidates of lst that have no embedding
WithoutEmbedding(lst) ==
  LET Bare(c) == ~HasEmbedding(c)
  IN  Filter(lst, Bare)

\* C25: when the semantic blending runs, the returned list holds every
\* candidate of the input list, and the candidates without an embedding keep
\* their score and their order
C25_NoCandidateLost ==
  (SemanticReturned /\ BlendingRan) =>
    /\ Keys(arguments.candidates) \subseteq Keys(outcome[1])
    /\ WithoutEmbedding(outcome[1]) = WithoutEmbedding(arguments.candidates)

\* the embedding step failed: the request failed, or the similarity of a
\* candidate raised
EmbeddingFailed ==
  /\ ReachesEmbedding(arguments.question, arguments.candidates, ENABLE_SEMANTIC_SEARCH)
  /\ \/ arguments.question_embedding = <<>>
     \/ \E i \in 1..Len(arguments.candidates) :
          /\ HasEmbedding(arguments.candidates[i])
          /\ DotRaises(arguments.question_embedding[1], arguments.candidates[i].embedding)

\* C26: semantic_search returns its input list as it was given (the same
\* candidates in the same order, every score and semantic_score unchanged)
\* when the flag is off, when no candidate has an embedding, or when the
\* embedding step fails, also after some rounds of the blending loop
C26_NoOpWhenSkipped ==
  (/\ SemanticReturned
   /\ \/ ~ENABLE_SEMANTIC_SEARCH
      \/ \A i \in 1..Len(arguments.candidates) : ~HasEmbedding(arguments.candidates[i])
      \/ EmbeddingFailed)
    => outcome[1] = arguments.candidates

\* ------------------------------------------------------------------------
\* _rank_ties_by_keyword_mentions
\* ------------------------------------------------------------------------

\* the scores of the ranked candidates
TieScores == {50, 100}

\* the candidates of the records of corpus with the scores of the list scores
ScoredCandidates(corpus, scores) ==
  [i \in 1..Len(corpus) |->
     [QuestionOnlyCandidate(corpus[i]) EXCEPT !.score = scores[i]]] \o <<>>

\* s in the opposite order
Reversed(s) == [i \in 1..Len(s) |-> s[Len(s) + 1 - i]] \o <<>>

\* the result lists given to the tie-breaker: some of the records of
\* CorpusA with a score each, in the order of the corpus or in the opposite
\* order
TieSubsets ==
  {ScoredCandidates(Restrict(CorpusA, I), scores) :
     I \in SUBSET (1..4), scores \in [1..4 -> TieScores]}

TieResults == TieSubsets \cup {Reversed(lst) : lst \in TieSubsets}

\* the token lists given to the tie-breaker: none, the token of "שבת", the
\* tokens of "דוד" and "יהונתן"
TieTokens ==
  {<<>>,
   _tokenize_query_keywords(None, <<<<"s", "b", "t">>>>),
   _tokenize_query_keywords(None, <<<<"d", "v", "d">>, <<"y", "h", "v", "n", "t", "N">>>>)}

TieInit ==
  /\ AtRest
  /\ maamarim = CorpusA
  /\ ENABLE_SEMANTIC_SEARCH = FALSE
  /\ arguments \in [function : {"_rank_ties_by_keyword_mentions"},
                    results : TieResults, tokens : TieTokens]
  /\ outcome = <<>>

\* _rank_ties_by_keyword_mentions(results, tokens=tokens) is called
RankTies ==
  /\ arguments.function = "_rank_ties_by_keyword_mentions"
  /\ outcome = <<>>
  /\ outcome' = <<_rank_ties_by_keyword_mentions(arguments.results, arguments.tokens)>>
  /\ UNCHANGED beside

TieNext == RankTies

TieSpec == TieInit /\ [][TieNext]_vars

\* the tie-breaker has returned
TiesRanked ==
  arguments.function = "_rank_ties_by_keyword_mentions" /\ outcome # <<>>

\* the place of the candidate c in lst
PlaceIn(lst, c) == CHOOSE i \in 1..Len(lst) : lst[i].key = c.key

\* the number of mentions of the tokens in the text of the candidate c
Mentions(c) == _count_keyword_mentions_in_text(c.text, arguments.tokens)

\* x may stand before y in the ranking of the list given: by a higher score,
\* by more mentions at the same score, by its place in the list given when
\* both are equal
RanksBefore(x, y, given) ==
  \/ x.score > y.score
  \/ x.score = y.score /\ Mentions(x) > Mentions(y)
  \/ /\ x.score = y.score
     /\ Mentions(x) = Mentions(y)
     /\ PlaceIn(given, x) < PlaceIn(given, y)

\* ranked holds the candidates of given, each as it was given
PermutationOf(ranked, given) ==
  /\ Len(ranked) = Len(given)
  /\ \A i \in 1..Len(ranked) : \E j \in 1..Len(given) : ranked[i] = given[j]
  /\ \A j \in 1..Len(given) : \E i \in 1..Len(ranked) : ranked[i] = given[j]

\* C27: the tie-breaker returns a permutation of its input in the order of
\* the score, descending, then of the mentions of the tokens in the text,
\* descending, then of the input (it is stable); no score is changed
C27_StableResort ==
  TiesRanked =>
    /\ PermutationOf(outcome[1], arguments.results)
    /\ \A i, j \in 1..Len(outcome[1]) :
         i < j => RanksBefore(outcome[1][i], outcome[1][j], arguments.results)

\* ------------------------------------------------------------------------
\* The side-fields of the ranking
\* ------------------------------------------------------------------------

\* the fields that the ranking writes on the candidates for its own use
SideFields ==
  {"_min_kw_count", "_sum_kw_count", "_matched_keywords_count",
   "_matched_keywords_total", "_matched_keyword_counts", "_has_all_keywords"}

\* C28: no dictionary returned by search_maamar carries a side-field of the
\* ranking, whatever branch ran
C28_NoSideField ==
  SearchReturned =>
    \A i \in 1..Len(returned) : DOMAIN returned[i] \cap SideFields = {}

\* ------------------------------------------------------------------------
\* extract_keywords_from_question
\* ------------------------------------------------------------------------

\* the keywords that the chat completion may name: "שבת", "דוד", "דויד"
AnswerWords == {<<"s", "b", "t">>, <<"d", "v", "d">>, <<"d", "v", "y", "d">>}

MaxAnswerWords == 3

\* the keywords of the list words with ", " between them
RECURSIVE CommaJoin(_)
CommaJoin(words) ==
  IF Len(words) = 1 THEN words[1]
  ELSE words[1] \o <<",", " ">> \o CommaJoin(Tail(words))

\* the contents of the chat completion: "אין", or one to MaxAnswerWords
\* keywords with commas between them
ExtractAnswers ==
  {EinWord} \cup
  {CommaJoin(words) : words \in UNION {[1..n -> AnswerWords] : n \in 1..MaxAnswerWords}}

ExtractQuestions == {QuestionThree, QuestionBlank}

ExtractInit ==
  /\ AtRest
  /\ maamarim = CorpusA
  /\ ENABLE_SEMANTIC_SEARCH = FALSE
  /\ arguments \in [function : {"extract_keywords_from_question"},
                    question : ExtractQuestions, answer : ExtractAnswers]
  /\ outcome = <<>>

\* extract_keywords_from_question(question) is called with an empty cache
\* and the chat completion answers with arguments.answer
ExtractFromQuestion ==
  /\ arguments.function = "extract_keywords_from_question"
  /\ outcome = <<>>
  /\ LET ext == extract_keywords_from_question(arguments.question,
                                               _EXTRACTED_KEYWORDS_CACHE,
                                               arguments.answer)
     IN  /\ outcome' = <<ext.value>>
         /\ _EXTRACTED_KEYWORDS_CACHE' = ext.cache
  /\ UNCHANGED <<sequential, threads, input, norm_level, normalized, arguments>>

ExtractNext == ExtractFromQuestion

ExtractSpec == ExtractInit /\ [][ExtractNext]_vars

\* extract_keywords_from_question has returned a list
ExtractReturned ==
  arguments.function = "extract_keywords_from_question" /\ outcome # <<>>

\* no keyword of the list stands before a smaller one
SortedKeywords(keywords) ==
  \A i, j \in 1..Len(keywords) : i < j => ~StrLess(keywords[j], keywords[i])

\* no two keywords of the list have the same level-3 form
DistinctForms(keywords) ==
  \A i, j \in 1..Len(keywords) :
    i # j => normalize_text(keywords[i], 3) # normalize_text(keywords[j], 3)

\* C29: the list returned by extract_keywords_from_question, which is the
\* list stored in the cache, is sorted and holds no two keywords with the
\* same level-3 normalized form
C29_SortedDeduplicated ==
  ExtractReturned =>
    /\ SortedKeywords(outcome[1])
    /\ DistinctForms(outcome[1])
    /\ KeyOf(arguments.question) # <<>>
         => _EXTRACTED_KEYWORDS_CACHE[KeyOf(arguments.question)] = outcome[1]

\* ------------------------------------------------------------------------
\* keyword_search with and without keywords_all_normalized
\* ------------------------------------------------------------------------

\* the curated keyword lists of the candidates: "שבת" and "דוד", with
\* empty entries at the front or at the end
TableKeywordLists ==
  {<<>>,
   <<<<"s", "b", "t">>>>,
   <<<<>>, <<"s", "b", "t">>>>,
   <<<<"s", "b", "t">>, <<>>>>,
   <<<<"d", "v", "d">>, <<"s", "b", "t">>>>,
   <<<<>>, <<"d", "v", "d">>, <<"s", "b", "t">>>>}

\* the candidate of the record m with the curated keyword list keywords
TableCandidate(m, keywords) ==
  [QuestionOnlyCandidate(m) EXCEPT !.keywords_all = keywords]

\* the candidate with its column keywords_all_normalized, equal element by
\* element to the level-3 form of keywords_all
WithNormalized(c) ==
  Put(c, "keywords_all_normalized",
      List([i \in 1..Len(c.keywords_all) |-> normalize_text(c.keywords_all[i], 3)]))

\* the candidate without the column
WithoutNormalized(c) == Pop(c, "keywords_all_normalized")

\* the candidate lists: k1 alone, or k1 and k3, with a curated list each
TableCandidates ==
  {<<TableCandidate(Record_k1, kws)>> : kws \in TableKeywordLists}
  \cup {<<TableCandidate(Record_k1, p[1]), TableCandidate(Record_k3, p[2])>> :
          p \in TableKeywordLists \X TableKeywordLists}

\* the keyword lists forced on keyword_search (Optional: without one the
\* extraction fails and the words of the question are used): "שבת", "דויד",
\* "גאולה", "דוד" and "שבת"
TableForced ==
  {<<>>,
   << <<<<"s", "b", "t">>>> >>,
   << <<<<"d", "v", "y", "d">>>> >>,
   << <<<<"g", "a", "v", "l", "h">>>> >>,
   << <<<<"d", "v", "d">>, <<"s", "b", "t">>>> >>}

TableInit ==
  /\ AtRest
  /\ maamarim = CorpusA
  /\ ENABLE_SEMANTIC_SEARCH = FALSE
  /\ arguments \in [function : {"keyword_search"}, question : {QuestionThree},
                    candidates : TableCandidates, supplied : BOOLEAN,
                    forced_keywords : TableForced]
  /\ outcome = <<>>

\* each candidate of the list with the column, or each without it
Columned(candidates, supplied) ==
  List([i \in 1..Len(candidates) |->
          IF supplied THEN WithNormalized(candidates[i]) ELSE candidates[i]])

\* keyword_search(question, candidates, forced_keywords=...) on candidates
\* that carry the column (supplied) or do not; the keyword extraction fails
KeywordSearchOf(supplied) ==
  keyword_search(arguments.question, Columned(arguments.candidates, supplied),
                 FALSE, Value(arguments.forced_keywords), None, KeywordAliases)

\* keyword_search is called by itself on the candidates of the arguments
SearchByKeywords ==
  /\ arguments.function = "keyword_search"
  /\ outcome = <<>>
  /\ outcome' = <<KeywordSearchOf(arguments.supplied)>>
  /\ UNCHANGED beside

TableNext == SearchByKeywords

TableSpec == TableInit /\ [][TableNext]_vars

\* keyword_search has ended
TableReturned == arguments.function = "keyword_search" /\ outcome # <<>>

\* the candidates of the list without the column
Uncolumned(candidates) ==
  List([i \in 1..Len(candidates) |-> WithoutNormalized(candidates[i])])

\* the two results are the same: neither call raised, and the candidates
\* came back in the same order with the same fields
SameResult(one, other) ==
  /\ one.raised = None
  /\ other.raised = None
  /\ Uncolumned(one.candidates) = Uncolumned(other.candidates)
  /\ one.extracted_keywords = other.extracted_keywords

\* C30: keyword_search gives the same result for candidates whose
\* keywords_all_normalized is supplied and for the same candidates without
\* it, for every curated keyword list (empty entries included), and raises
\* in neither case
C30_SameWithOrWithoutColumn ==
  TableReturned => SameResult(outcome[1], KeywordSearchOf(~arguments.supplied))

=============================================================================
